---- MODULE Spec2Model ----
(***************************************************************************)
(* Job-watcher backend: identity/state engine (services/dedupe.py) and    *)
(* run orchestrator (services/runner.py).                                  *)
(*                                                                         *)
(* Texts are sequences of one-character strings, times are integers        *)
(* (the order of the ISO-8601 UTC stamps now_utc_iso() returns), an SQLite *)
(* table is the set of its rows.                                           *)
(***************************************************************************)
EXTENDS Integers, Sequences, FiniteSets, TLC

VARIABLES
    \* --- the SQLite connection's view of the tables -----------------------
    jobs_seen,       \* rows [dedupe_key, first_seen, last_seen]
    jobs_latest,     \* rows [dedupe_key, job]
    run_jobs,        \* rows [run_id, dedupe_key, included, settings_hash] (matched_at left out)
    run_job_audit,   \* rows [run_id, dedupe_key, included, reasons]
    runs,            \* rows [run_id, source_errors]
    job_overrides,   \* rows [dedupe_key, action]
    disk,            \* the committed contents of the tables above
    \* --- environment --------------------------------------------------------
    clock,           \* wall clock read by now_utc_iso()
    \* --- RunnerService.run_once: locals of the invocation in progress ------
    pc,              \* position of run_once
    run_id,
    settings,        \* [ml_enabled, ml_mode, ml_rescue_threshold]
    fetched,         \* the value fetch_jobs_via_legacy returned
    audit_rows,      \* sequence of evaluated rows
    raw_rows,        \* the evaluated rows as the filter left them
    overrides,       \* the overrides dict read at runner.py:154-166
    pre_ml,          \* _audit_included of each row when the ML step starts
    ml_probs,        \* what the scorer returned for the run: dedupe_key -> probability
    ml_info,         \* [enabled, available, reason]: what the ML step found
    final_kept,
    upserted,        \* dedupe keys the run's state-engine call wrote
    last_error,      \* what the caller of run_once observed
    \* --- SqliteJobState.upsert_and_compute_new: the last call ---------------
    call,            \* [jobs, run_id, settings_hash, now, done, outcome, new, current, again, fresh]
    reported_new,    \* how often each key was in the "new" list of a completed call
    \* --- build_dedupe_key applied to a pair of jobs -------------------------
    kjobs,
    kkeys,
    \* --- FilterAgent.explain on one job under one configuration -------------
    fjob,            \* the NormalizedJob handed to explain
    fsettings,       \* the settings of the run
    fconfig,         \* the config build_legacy_config made of them
    explained,       \* what the successive invocations returned, in order
    \* --- fetch_all_sources ---------------------------------------------------
    src_config,      \* config["sources"]
    company_tasks,   \* label -> the fetch_company task of that company
    src_outcome,     \* per source: "pending", "fetched" or "failed"
    all_jobs,
    errors,
    fa_pc,           \* "running" until fetch_all_sources has returned
    \* --- CareerUrlAgent._iterate_list_pages ----------------------------------
    pg_max_pages,    \* the max_pages argument
    pg_q,            \* the deque q
    pg_seen,         \* the set seen
    pg_out,          \* the list out of (html, final_url)
    pg_clock,        \* time.time() - start
    pg_log,          \* the page fetches started so far: [url, at, seen]
    pg_pc,
    \* --- CareerUrlAgent.fetch ------------------------------------------------
    cf_src,          \* the source entry: url and mode
    cf_env,          \* the CAREERURL_* environment
    cf_pages,        \* pages, as _iterate_list_pages returned them
    cf_detected,     \* what is left of detected in the loop over it
    cf_api,          \* the API agent calls made: [type, slug, outcome]
    cf_result,       \* the list fetch returned
    cf_via,          \* the return statement that returned it
    cf_pc,
    \* --- discover_sources ------------------------------------------------------
    ds_in,           \* the arguments and what the network will answer
    ds_pass1,        \* deduped_pass1
    ds_verified1,    \* verified_pass1
    ds_guessed,      \* should_guess, once decided
    ds_final,        \* final_candidates
    ds_pc,
    \* CareerUrlAgent._discover_and_fetch_job_links
    dl_pages,        \* the fetched list pages, each a sequence of hrefs
    dl_candidates,   \* the candidate links
    dl_i,            \* position of the loop over the candidates
    dl_attempt,      \* attempt of the detail loop for the candidate
    dl_h,            \* attempt inside the running _http_get call
    dl_last,         \* what the last try for this candidate ended with
    dl_fetched,      \* the fetched counter
    dl_out,          \* the parsed detail pages
    dl_requested,    \* the candidates a request was sent for
    dl_requests,     \* the number of requests sent
    dl_elapsed,      \* time.time() - start
    dl_pc,
    \* two triggers of RunnerService.run_once on the connection of app.state.db
    tr_keys,         \* the dedupe keys each trigger's run evaluates
    tr_pc,           \* position of each trigger's run_once
    tr_pending,      \* rows written on the connection and not yet committed
    tr_committed     \* rows the connection has committed


dbvars  == <<jobs_seen, jobs_latest, run_jobs, run_job_audit, runs, job_overrides, disk>>
runvars == <<pc, run_id, settings, fetched, audit_rows, raw_rows, overrides, pre_ml,
             ml_probs, ml_info, final_kept, upserted, last_error>>
keyvars == <<kjobs, kkeys>>
filtervars == <<fjob, fsettings, fconfig, explained>>
sourcevars == <<src_config, company_tasks, src_outcome, all_jobs, errors, fa_pc>>
pagevars == <<pg_max_pages, pg_q, pg_seen, pg_out, pg_clock, pg_log, pg_pc>>
careervars == <<cf_src, cf_env, cf_pages, cf_detected, cf_api, cf_result, cf_via, cf_pc>>
discovervars == <<ds_in, ds_pass1, ds_verified1, ds_guessed, ds_final, ds_pc>>
linkvars == <<dl_pages, dl_candidates, dl_i, dl_attempt, dl_h, dl_last, dl_fetched, dl_out, dl_requested, dl_requests, dl_elapsed, dl_pc>>
triggervars == <<tr_keys, tr_pc, tr_pending, tr_committed>>
sidevars == <<filtervars, sourcevars, pagevars, careervars, discovervars, linkvars, triggervars>>
mainvars == <<dbvars, clock, runvars, call, reported_new, keyvars>>
vars    == <<mainvars, sidevars>>

None == "None"

(***************************************************************************)
(* Text helpers                                                            *)
(***************************************************************************)
IsSpace(c) == c = " "

\* str.strip(): drop leading and trailing whitespace
RECURSIVE LStrip(_)
LStrip(s) == IF s # <<>> /\ IsSpace(Head(s)) THEN LStrip(Tail(s)) ELSE s

RECURSIVE RStrip(_)
RStrip(s) == IF s # <<>> /\ IsSpace(s[Len(s)]) THEN RStrip(SubSeq(s, 1, Len(s) - 1)) ELSE s

Strip(s) == RStrip(LStrip(s))

\* re.sub(r"\s+", " ", s): every run of whitespace becomes one blank
RECURSIVE CollapseWs(_)
CollapseWs(s) ==
    IF s = <<>> THEN <<>>
    ELSE IF IsSpace(Head(s))
         THEN <<" ">> \o CollapseWs(LStrip(s))
         ELSE <<Head(s)>> \o CollapseWs(Tail(s))

UpperLetters == <<"A", "B", "C", "D", "E", "F", "G", "H", "I", "J", "K", "L", "M", "N", "O", "P", "Q", "R", "S", "T", "U", "V", "W", "X", "Y", "Z">>

LowerLetters == <<"a", "b", "c", "d", "e", "f", "g", "h", "i", "j", "k", "l", "m", "n", "o", "p", "q", "r", "s", "t", "u", "v", "w", "x", "y", "z">>

\* str.lower()
LowerChar(c) ==
    IF \E i \in 1..Len(UpperLetters) : UpperLetters[i] = c
    THEN LowerLetters[CHOOSE i \in 1..Len(UpperLetters) : UpperLetters[i] = c]
    ELSE c

Lower(s) == [i \in 1..Len(s) |-> LowerChar(s[i])]

\* dedupe.py _norm
Norm(s) == Lower(CollapseWs(Strip(s)))

\* dedupe.py sha1_text: the digest of s, taken as collision free
sha1_text(s) == <<"sha1(">> \o s \o <<")">>

\* the f-string of dedupe.py:25
FallbackText(job) ==
    job.company_name \o <<"|">> \o job.title \o <<"|">> \o job.location
        \o <<"|">> \o job.department \o <<"|">> \o job.team

\* the f-string of dedupe.py:23
IdKeyText(job) ==
    <<"i", "d", ":">> \o job.source_type \o <<":">> \o job.company_name \o <<":">> \o job.job_id

build_dedupe_key_JobIdFirst(job) ==
    IF Strip(job.job_id) # <<>> THEN IdKeyText(job)
    ELSE IF Strip(job.url) # <<>> THEN <<"u", "r", "l", ":">> \o sha1_text(Norm(job.url))
    ELSE <<"h", "a", "s", "h", ":">> \o sha1_text(Norm(FallbackText(job)))

build_dedupe_key(job) ==
    IF Strip(job.url) # <<>>
    THEN <<"u", "r", "l", ":">> \o sha1_text(Norm(job.url))
    ELSE IF Strip(job.job_id) # <<>>
         THEN IdKeyText(job)
         ELSE <<"h", "a", "s", "h", ":">> \o sha1_text(Norm(FallbackText(job)))

(***************************************************************************)
(* Bounds and input sets                                                   *)
(***************************************************************************)
MaxJobs  == 2      \* longest job list handed to one call / one run
MaxClock == 1      \* last instant of the wall clock

NoText == <<>>

Job(url, job_id, description) ==
    [url |-> url, job_id |-> job_id, source_type |-> <<"g">>, company_name |-> <<"c">>,
     title |-> <<"t">>, location |-> NoText, department |-> NoText, team |-> NoText,
     description |-> description]

\* postings a fetch can return: JobA and JobA2 are the same posting reached
\* through two sources (same URL up to case and blanks, different description)
JobA  == Job(<<"a">>, <<"7">>, <<"x">>)
JobA2 == Job(<<"A", " ">>, NoText, <<"y">>)
JobB  == Job(NoText, <<"7">>, <<"x">>)

JobPool == {JobA, JobA2, JobB}

AllKeys == {build_dedupe_key(j) : j \in JobPool}

RECURSIVE SeqsUpTo(_, _)
SeqsUpTo(S, n) ==
    IF n = 0 THEN {<<>>}
    ELSE LET shorter == SeqsUpTo(S, n - 1)
         IN shorter \cup {Append(q, x) : q \in {r \in shorter : Len(r) = n - 1}, x \in S}

JobLists == SeqsUpTo(JobPool, MaxJobs)

RunIds == {"r1"}

(***************************************************************************)
(* SqliteJobState.upsert_and_compute_new                                   *)
(***************************************************************************)
Tables == [jobs_seen |-> jobs_seen, jobs_latest |-> jobs_latest, run_jobs |-> run_jobs,
           run_job_audit |-> run_job_audit, runs |-> runs, job_overrides |-> job_overrides]

\* Python truthiness of an Optional[str] argument
Truthy(x) == x # None /\ x # ""

\* INSERT ... ON CONFLICT(run_id, dedupe_key) DO UPDATE SET ...
UpsertRunJob(tbl, row) ==
    {r \in tbl : ~(r.run_id = row.run_id /\ r.dedupe_key = row.dedupe_key)} \cup {row}

\* INSERT ... ON CONFLICT(dedupe_key) DO UPDATE SET <every column>
UpsertLatest_PureInsert(tbl, row) == tbl \cup {row}

UpsertLatest_KeepOld(tbl, row) ==
    IF \E r \in tbl : r.dedupe_key = row.dedupe_key THEN tbl ELSE tbl \cup {row}

UpsertLatest(tbl, row) ==
    {r \in tbl : r.dedupe_key # row.dedupe_key} \cup {row}

TouchSeen_ResetFirstSeen(tbl, dk, now) ==
    {IF r.dedupe_key = dk THEN [r EXCEPT !.first_seen = now, !.last_seen = now] ELSE r : r \in tbl}

TouchSeen_WrongColumn(tbl, dk, now) ==
    {IF r.dedupe_key = dk THEN [r EXCEPT !.first_seen = now] ELSE r : r \in tbl}

\* UPDATE jobs_seen SET last_seen=? WHERE dedupe_key=?
TouchSeen(tbl, dk, now) ==
    {IF r.dedupe_key = dk THEN [r EXCEPT !.last_seen = now] ELSE r : r \in tbl}

SeenHit_Blind(tbl, dk) == {}

\* SELECT first_seen FROM jobs_seen WHERE dedupe_key=?
SeenHit(tbl, dk) == {r \in tbl : r.dedupe_key = dk}

\* one iteration of the loop at dedupe.py:50-122
UpsertJob(st, job) ==
    LET dk     == build_dedupe_key(job)
        hit    == SeenHit(st.jobs_seen, dk)
        isNew  == hit = {}
        fs     == IF isNew THEN st.now ELSE (CHOOSE r \in hit : TRUE).first_seen
        seen2  == IF isNew
                  THEN st.jobs_seen \cup
                         {[dedupe_key |-> dk, first_seen |-> st.now, last_seen |-> st.now]}
                  ELSE TouchSeen(st.jobs_seen, dk, st.now)
        out    == [job |-> job, dedupe_key |-> dk, first_seen |-> fs]
        member == [run_id |-> st.run_id, dedupe_key |-> dk, included |-> 1,
                   settings_hash |-> st.settings_hash]
    IN  [st EXCEPT
           !.jobs_seen   = seen2,
           !.jobs_latest = UpsertLatest(@, [dedupe_key |-> dk, job |-> job]),
           !.run_jobs    = IF Truthy(st.run_id) /\ Truthy(st.settings_hash)
                           THEN UpsertRunJob(@, member) ELSE @,
           !.new         = IF isNew THEN Append(@, out) ELSE @,
           !.current     = Append(@, out)]

RECURSIVE UpsertLoop(_, _, _)
UpsertLoop(st, jobs, n) ==
    IF n = 0 THEN st
    ELSE UpsertJob(UpsertLoop(st, jobs, n - 1), jobs[n])

\* the state of the call after its first n jobs
upsert_and_compute_new(jobs, rid, sh, now, n) ==
    UpsertLoop([jobs_seen |-> jobs_seen, jobs_latest |-> jobs_latest, run_jobs |-> run_jobs,
                run_id |-> rid, settings_hash |-> sh, now |-> now,
                new |-> <<>>, current |-> <<>>],
               jobs, n)

NoCall == [jobs |-> <<>>, run_id |-> None, settings_hash |-> None, now |-> 0, done |-> 0,
           outcome |-> "none", new |-> <<>>, current |-> <<>>, again |-> FALSE,
           fresh |-> {}]

JobKeys(jobs) == {build_dedupe_key(jobs[i]) : i \in 1..Len(jobs)}

\* what the model remembers of a call: its arguments, how far it got, what it
\* returned, and the keys of its list that had no identity row before it
\* (before the first attempt, for a repeat)
CallRecord(jobs, rid, sh, now, n, outcome, st, again) ==
    [jobs |-> jobs, run_id |-> rid, settings_hash |-> sh, now |-> now, done |-> n,
     outcome |-> outcome, new |-> st.new, current |-> st.current, again |-> again,
     fresh |-> IF again THEN call.fresh
               ELSE JobKeys(jobs) \ {r.dedupe_key : r \in jobs_seen}]

KeysOf(rows) == {rows[i].dedupe_key : i \in 1..Len(rows)}

Bump(cnt, keys) == [k \in DOMAIN cnt |-> IF k \in keys /\ cnt[k] < 2 THEN cnt[k] + 1 ELSE cnt[k]]

\* the writes of a call that ran to its commit at dedupe.py:124
ApplyCall(jobs, rid, sh, now, again) ==
    LET st == upsert_and_compute_new(jobs, rid, sh, now, Len(jobs))
    IN  /\ jobs_seen' = st.jobs_seen
        /\ jobs_latest' = st.jobs_latest
        /\ run_jobs' = st.run_jobs
        /\ disk' = [Tables EXCEPT !.jobs_seen = st.jobs_seen, !.jobs_latest = st.jobs_latest,
                                  !.run_jobs = st.run_jobs]
        /\ call' = CallRecord(jobs, rid, sh, now, Len(jobs), "ok", st, again)
        /\ reported_new' = Bump(reported_new, KeysOf(st.new))

CallContexts ==
    {[run_id |-> None, settings_hash |-> None],
     [run_id |-> "r1", settings_hash |-> "h"]}

\* a direct call of the state engine that returns
UpsertCall ==
    \E jobs \in JobLists, ctx \in CallContexts, now \in clock..MaxClock :
        /\ pc = "idle"
        /\ clock' = now
        /\ ApplyCall(jobs, ctx.run_id, ctx.settings_hash, now, FALSE)
        /\ UNCHANGED <<run_job_audit, runs, job_overrides, runvars, keyvars, sidevars>>

\* a call that raises inside the loop after n jobs (a statement fails, the
\* database is locked): nothing is committed, the statements already executed
\* stay in the connection's open transaction
UpsertCallRaises ==
    \E jobs \in JobLists, ctx \in CallContexts, now \in clock..MaxClock :
      \E n \in 1..(Len(jobs) - 1) :
        LET st == upsert_and_compute_new(jobs, ctx.run_id, ctx.settings_hash, now, n)
        IN  /\ pc = "idle"
            /\ clock' = now
            /\ jobs_seen' = st.jobs_seen
            /\ jobs_latest' = st.jobs_latest
            /\ run_jobs' = st.run_jobs
            /\ call' = CallRecord(jobs, ctx.run_id, ctx.settings_hash, now, n, "raised",
                                  st, FALSE)
            /\ UNCHANGED <<run_job_audit, runs, job_overrides, disk, reported_new,
                           runvars, keyvars, sidevars>>

\* the caller repeats the last call with the same arguments, after it returned
\* or after it raised (with the partial writes still pending, or rolled back)
UpsertCallAgain ==
    \E now \in clock..MaxClock :
        /\ pc = "idle"
        /\ call.outcome \in {"ok", "raised", "lost"}
        /\ clock' = now
        /\ ApplyCall(call.jobs, call.run_id, call.settings_hash, now, TRUE)
        /\ UNCHANGED <<run_job_audit, runs, job_overrides, runvars, keyvars, sidevars>>

\* the process dies and restarts: the open transaction is rolled back
ProcessRestart ==
    /\ Tables # disk
    /\ jobs_seen' = disk.jobs_seen
    /\ jobs_latest' = disk.jobs_latest
    /\ run_jobs' = disk.run_jobs
    /\ run_job_audit' = disk.run_job_audit
    /\ runs' = disk.runs
    /\ job_overrides' = disk.job_overrides
    /\ call' = IF call.outcome = "raised" THEN [call EXCEPT !.outcome = "lost"] ELSE NoCall
    /\ pc' = "idle"
    /\ UNCHANGED <<disk, clock, run_id, settings, fetched, audit_rows, raw_rows, overrides,
                   pre_ml, ml_probs, ml_info, final_kept, upserted, last_error, reported_new, keyvars, sidevars>>

NoSettings == [ml_enabled |-> FALSE, ml_mode |-> "rank_only", ml_rescue_threshold |-> 850]

\* the database right after init_db, no run and no call in progress
NoMLInfo == [enabled |-> FALSE, available |-> FALSE, reason |-> ""]

CoreInit ==
    /\ jobs_seen = {} /\ jobs_latest = {} /\ run_jobs = {} /\ run_job_audit = {}
    /\ runs = {} /\ job_overrides = {}
    /\ disk = [jobs_seen |-> {}, jobs_latest |-> {}, run_jobs |-> {}, run_job_audit |-> {},
               runs |-> {}, job_overrides |-> {}]
    /\ clock = 0
    /\ pc = "idle" /\ run_id = None /\ settings = NoSettings
    /\ fetched = <<>> /\ audit_rows = <<>> /\ raw_rows = <<>> /\ overrides = {}
    /\ pre_ml = <<>> /\ ml_probs = <<>> /\ ml_info = NoMLInfo /\ final_kept = <<>> /\ upserted = {} /\ last_error = None
    /\ call = NoCall
    /\ reported_new = [k \in AllKeys |-> 0]

KeyIdle == kjobs = <<>> /\ kkeys = <<>>

FilterIdle == fjob = None /\ fsettings = None /\ fconfig = None /\ explained = <<>>

SourcesIdle ==
    /\ src_config = <<>> /\ company_tasks = <<>> /\ src_outcome = <<>>
    /\ all_jobs = <<>> /\ errors = {} /\ fa_pc = "idle"

PagesIdle ==
    /\ pg_max_pages = 0 /\ pg_q = <<>> /\ pg_seen = {} /\ pg_out = <<>>
    /\ pg_clock = 0 /\ pg_log = <<>> /\ pg_pc = "idle"

CareerIdle ==
    /\ cf_src = None /\ cf_env = None /\ cf_pages = <<>> /\ cf_detected = <<>>
    /\ cf_api = <<>> /\ cf_result = <<>> /\ cf_via = "none" /\ cf_pc = "idle"

DiscoverIdle ==
    /\ ds_in = None /\ ds_pass1 = <<>> /\ ds_verified1 = <<>> /\ ds_guessed = FALSE
    /\ ds_final = <<>> /\ ds_pc = "idle"

LinksIdle ==
    /\ dl_pages = <<>> /\ dl_candidates = <<>> /\ dl_i = 0 /\ dl_attempt = 0 /\ dl_h = 0
    /\ dl_last = "none" /\ dl_fetched = 0 /\ dl_out = <<>> /\ dl_requested = {}
    /\ dl_requests = 0 /\ dl_elapsed = 0 /\ dl_pc = "idle"

TriggersIdle ==
    /\ tr_keys = <<>> /\ tr_pc = <<>> /\ tr_pending = {} /\ tr_committed = {}

SideIdle == FilterIdle /\ SourcesIdle /\ PagesIdle /\ CareerIdle /\ DiscoverIdle /\ LinksIdle /\ TriggersIdle

Init == CoreInit /\ KeyIdle /\ SideIdle

(***************************************************************************)
(* The state engine under repeated calls                                   *)
(***************************************************************************)
NextState == UpsertCall \/ UpsertCallRaises \/ UpsertCallAgain \/ ProcessRestart

SpecState == Init /\ [][NextState]_vars

(***************************************************************************)
(* RunnerService.run_once                                                  *)
(***************************************************************************)
\* con.commit(): everything pending on the shared connection becomes durable
Commit(t) == disk' = t

Reason(pre, rest) == [pre |-> pre, rest |-> rest]

\* str.startswith(pref) for a prefix that ends at the reason's first colon
StartsWith(reason, pref) == reason.pre = pref

\* (keep, reasons) pairs FilterAgent.explain returns
FilterVerdicts ==
    {[keep |-> TRUE,  reasons |-> <<>>],
     [keep |-> FALSE, reasons |-> <<Reason("role_keywords:", <<"no_match">>)>>],
     [keep |-> FALSE, reasons |-> <<Reason("location:", <<"not_us">>)>>]}

\* one evaluated job: the posting with the filter's verdict and reason trail
Evaluated(job, v) ==
    [job |-> job, audit_included |-> IF v.keep THEN 1 ELSE 0, audit_reasons |-> v.reasons,
     dedupe_key |-> <<>>]

EvaluatedRows == {Evaluated(j, v) : j \in JobPool, v \in FilterVerdicts}

\* the filter is a function of the posting: equal postings, equal verdicts
EvaluatedLists ==
    {l \in SeqsUpTo(EvaluatedRows, MaxJobs) :
        \A i, j \in 1..Len(l) : l[i].job = l[j].job => l[i] = l[j]}

\* SelectSeq with the row in scope
RECURSIVE Kept(_)
Kept(rows) ==
    IF rows = <<>> THEN <<>>
    ELSE IF Head(rows).audit_included = 1
         THEN <<Head(rows)>> \o Kept(Tail(rows))
         ELSE Kept(Tail(rows))

\* settings snapshots get_settings can return (the ML part)
SettingsSet ==
    {[ml_enabled |-> FALSE, ml_mode |-> "rank_only", ml_rescue_threshold |-> 850],
     [ml_enabled |-> TRUE,  ml_mode |-> "rank_only", ml_rescue_threshold |-> 850],
     [ml_enabled |-> TRUE,  ml_mode |-> "rescue",    ml_rescue_threshold |-> 850],
     [ml_enabled |-> TRUE,  ml_mode |-> "rescue",    ml_rescue_threshold |-> 920]}

\* legacy_adapter.py:83-103: the adapter filters with FilterAgent.keep and
\* returns (kept_dicts, errors, load_errors, discovered)
fetch_jobs_via_legacy(evaluated, source_errors) ==
    <<[i \in 1..Len(Kept(evaluated)) |-> Kept(evaluated)[i].job], source_errors, <<>>, <<>>>>

\* an adapter that also hands back one audit row per evaluated job, as the
\* five-way unpacking at runner.py:128 expects
fetch_jobs_with_audit(evaluated, source_errors) ==
    <<[i \in 1..Len(Kept(evaluated)) |-> Kept(evaluated)[i].job], source_errors, <<>>, <<>>,
      evaluated>>

\* the errors dict of fetch_all_sources: no failure, or the failure of a source
RunSourceErrors ==
    {{}, {[key |-> <<"acme", ":", "lever">>, message |-> [kind |-> "exception", source |-> 1]]}}

\* runner.py:38-128 up to the return of fetch_jobs_via_legacy
StartRun(evaluated, result) ==
    \E rid \in RunIds, st \in SettingsSet :
        /\ pc = "idle"
        /\ rid \notin {r.run_id : r \in runs}
        /\ run_id = None
        /\ run_id' = rid
        /\ settings' = st
        /\ raw_rows' = evaluated
        /\ fetched' = result
        /\ pc' = "unpack"
        /\ UNCHANGED <<dbvars, clock, audit_rows, overrides, pre_ml, ml_probs, ml_info, final_kept,
                       upserted, last_error, call, reported_new, keyvars, sidevars>>

RunFetch ==
    \E evaluated \in EvaluatedLists, errs \in RunSourceErrors :
        StartRun(evaluated, fetch_jobs_via_legacy(evaluated, errs))

RunFetchWithAudit ==
    \E evaluated \in EvaluatedLists, errs \in RunSourceErrors :
        StartRun(evaluated, fetch_jobs_with_audit(evaluated, errs))

\* runner.py:128: fetched_jobs, source_errors, h1b_errors, discovered_sources,
\* audit_rows = ...; a tuple of another length raises ValueError out of run_once
Unpack ==
    /\ pc = "unpack"
    /\ IF Len(fetched) = 5
       THEN /\ audit_rows' = fetched[5]
            /\ pc' = "overrides"
            /\ UNCHANGED last_error
       ELSE /\ pc' = "failed"
            /\ last_error' = "ValueError"
            /\ UNCHANGED audit_rows
    /\ UNCHANGED <<dbvars, clock, run_id, settings, fetched, raw_rows, overrides, pre_ml,
                   ml_probs, ml_info, final_kept, upserted, call, reported_new, keyvars, sidevars>>

\* runner.py:144-152: every row gets its dedupe_key
WithKeys(rows) == [i \in 1..Len(rows) |-> [rows[i] EXCEPT !.dedupe_key = build_dedupe_key(rows[i].job)]]

\* runner.py:151: audit_by_key[dk] = row keeps, per key, the last row with it
AuditByKey(rows) ==
    {i \in 1..Len(rows) : \A j \in (i + 1)..Len(rows) : rows[j].dedupe_key # rows[i].dedupe_key}

\* runner.py:154-166: action of the override stored for dk, None without one
OverrideAction(ovs, dk) ==
    IF \E o \in ovs : o.dedupe_key = dk
    THEN (CHOOSE o \in ovs : o.dedupe_key = dk).action
    ELSE None

\* runner.py:169-179 for one row of audit_by_key
OverriddenRow(row, action) ==
    IF action = "include"
    THEN [row EXCEPT !.audit_included = 1,
                     !.audit_reasons = Append(@, Reason("override:", <<"force_include">>))]
    ELSE IF action = "exclude"
    THEN [row EXCEPT !.audit_included = 0,
                     !.audit_reasons = Append(@, Reason("override:", <<"force_exclude">>))]
    ELSE row

\* runner.py:136-179
ApplyOverrides ==
    /\ pc = "overrides"
    /\ LET rows == WithKeys(audit_rows)
           keys == {rows[i].dedupe_key : i \in 1..Len(rows)}
       IN  /\ overrides' = {o \in job_overrides : o.dedupe_key \in keys}
           /\ audit_rows' =
                 [i \in 1..Len(rows) |->
                     IF i \in AuditByKey(rows)
                     THEN OverriddenRow(rows[i], OverrideAction(overrides', rows[i].dedupe_key))
                     ELSE rows[i]]
    /\ pc' = "ml"
    /\ UNCHANGED <<dbvars, clock, run_id, settings, fetched, raw_rows, pre_ml, ml_probs, ml_info,
                   final_kept, upserted, last_error, call, reported_new, keyvars, sidevars>>

\* runner.py:215-221
hard_prefixes == {"location:", "work_mode:", "remote_us:", "state:", "visa_restriction:"}

has_hard_gate_Never(reasons) == FALSE

\* runner.py:235-238
has_hard_gate(reasons) ==
    \E i \in 1..Len(reasons) : \E pref \in hard_prefixes : StartsWith(reasons[i], pref)

\* probabilities a scorer assigns, in thousandths
Probabilities == {700, 900}

\* score(jobs) -> {dedupe_key: probability} for some of the run's keys
score_audit_rows(rows) ==
    UNION {[ks -> Probabilities] : ks \in SUBSET {rows[i].dedupe_key : i \in 1..Len(rows)}}

\* runner.py:224-244 for one row
RescuedRow(r, probs) ==
    IF r.dedupe_key \notin DOMAIN probs THEN r
    ELSE LET p       == probs[r.dedupe_key]
             reasons == Append(r.audit_reasons, Reason("ml:", <<"prob", p>>))
         IN  IF /\ settings.ml_mode = "rescue"
                /\ r.audit_included = 0
                /\ ~has_hard_gate(reasons)
                /\ p >= settings.ml_rescue_threshold
             THEN [r EXCEPT !.audit_included = 1,
                            !.audit_reasons = Append(reasons, Reason("ml:", <<"rescued">>))]
             ELSE [r EXCEPT !.audit_reasons = reasons]

Unavailable_Silent(rows, why) == rows

\* runner.py:204-208 and 251-254
Unavailable(rows, why) ==
    [i \in 1..Len(rows) |->
        [rows[i] EXCEPT !.audit_reasons = Append(@, Reason("ml:", <<"unavailable", why>>))]]

MLBase ==
    /\ pc = "ml"
    /\ pre_ml' = [i \in 1..Len(audit_rows) |-> audit_rows[i].audit_included]
    /\ pc' = "persist"
    /\ UNCHANGED <<dbvars, clock, run_id, settings, fetched, raw_rows, overrides,
                   final_kept, upserted, last_error, call, reported_new, keyvars, sidevars>>

\* runner.py:185: ML switched off
MLSkipped ==
    /\ ~settings.ml_enabled
    /\ MLBase
    /\ ml_info' = NoMLInfo
    /\ UNCHANGED <<audit_rows, ml_probs>>

\* ml_relevance.py:99-100 and runner.py:201: a reason train_from_db gives for
\* not training, or no_model when it gave none
UnavailableReasons == {"deps_missing", "no_model"}

\* runner.py:198-208: load() found no model or no dependencies
MLUnavailable ==
    /\ settings.ml_enabled
    /\ MLBase
    /\ \E reason \in UnavailableReasons :
          /\ ml_info' = [enabled |-> TRUE, available |-> FALSE, reason |-> reason]
          /\ audit_rows' = Unavailable(audit_rows, reason)
    /\ UNCHANGED ml_probs

\* runner.py:213 and 248-254: MLRelevance has no method score_audit_rows, the
\* AttributeError (like any error of training, loading or scoring) ends in
\* the handler
MLScoringRaises ==
    /\ settings.ml_enabled
    /\ MLBase
    /\ ml_info' = [enabled |-> TRUE, available |-> FALSE, reason |-> "error"]
    /\ audit_rows' = Unavailable(audit_rows, "error")
    /\ UNCHANGED ml_probs

\* runner.py:210-246 with a scorer that returns probabilities
MLScored ==
    /\ settings.ml_enabled
    /\ MLBase
    /\ ml_info' = [enabled |-> TRUE, available |-> TRUE, reason |-> ""]
    /\ \E probs \in score_audit_rows(audit_rows) :
          /\ ml_probs' = probs
          /\ audit_rows' = [i \in 1..Len(audit_rows) |-> RescuedRow(audit_rows[i], probs)]

\* runner.py:257 and 337-342: final_kept goes to the state engine, which commits
PersistKept ==
    /\ pc = "persist"
    /\ final_kept' = Kept(audit_rows)
    /\ \E now \in clock..MaxClock :
          /\ clock' = now
          /\ ApplyCall([i \in 1..Len(final_kept') |-> final_kept'[i].job], None, None, now, FALSE)
    /\ upserted' = {final_kept'[i].dedupe_key : i \in 1..Len(final_kept')}
    /\ pc' = "membership"
    /\ UNCHANGED <<run_job_audit, runs, job_overrides, run_id, settings, fetched, audit_rows,
                   raw_rows, overrides, pre_ml, ml_probs, ml_info, last_error, keyvars, sidevars>>

\* INSERT ... ON CONFLICT(run_id, dedupe_key) DO UPDATE, row after row
RECURSIVE UpsertAll(_, _)
UpsertAll(tbl, rows) ==
    IF rows = <<>> THEN tbl
    ELSE UpsertAll(UpsertRunJob(tbl, Head(rows)), Tail(rows))

\* runner.py:344-416: membership and audit rows of every evaluated row
PersistMembership ==
    /\ pc = "membership"
    /\ run_jobs' = UpsertAll(run_jobs,
          [i \in 1..Len(audit_rows) |->
              [run_id |-> run_id, dedupe_key |-> audit_rows[i].dedupe_key,
               included |-> audit_rows[i].audit_included, settings_hash |-> "h"]])
    /\ run_job_audit' = UpsertAll(run_job_audit,
          [i \in 1..Len(audit_rows) |->
              [run_id |-> run_id, dedupe_key |-> audit_rows[i].dedupe_key,
               included |-> audit_rows[i].audit_included,
               reasons |-> audit_rows[i].audit_reasons]])
    /\ pc' = "finish"
    /\ UNCHANGED <<jobs_seen, jobs_latest, runs, job_overrides, disk, clock, run_id, settings,
                   fetched, audit_rows, raw_rows, overrides, pre_ml, ml_probs, ml_info, final_kept,
                   upserted, last_error, call, reported_new, keyvars, sidevars>>

\* runner.py:459-481: the run record, then the commit
FinishRun ==
    /\ pc = "finish"
    /\ runs' = runs \cup {[run_id |-> run_id, source_errors |-> fetched[2]]}
    /\ Commit([Tables EXCEPT !.runs = runs'])
    /\ pc' = "done"
    /\ UNCHANGED <<jobs_seen, jobs_latest, run_jobs, run_job_audit, job_overrides, clock,
                   run_id, settings, fetched, audit_rows, raw_rows, overrides, pre_ml,
                   ml_probs, ml_info, final_kept, upserted, last_error, call, reported_new, keyvars, sidevars>>

\* api/overrides.py:63-91: PUT /overrides/{dedupe_key}
upsert_override ==
    \E dk \in AllKeys, action \in {"include", "exclude"} :
        /\ pc = "idle"
        /\ job_overrides' = {o \in job_overrides : o.dedupe_key # dk}
                              \cup {[dedupe_key |-> dk, action |-> action]}
        /\ Commit([Tables EXCEPT !.job_overrides = job_overrides'])
        /\ UNCHANGED <<jobs_seen, jobs_latest, run_jobs, run_job_audit, runs, clock, runvars,
                       call, reported_new, keyvars, sidevars>>

\* api/overrides.py:94-99: DELETE /overrides/{dedupe_key}
delete_override ==
    \E dk \in {o.dedupe_key : o \in job_overrides} :
        /\ pc = "idle"
        /\ job_overrides' = {o \in job_overrides : o.dedupe_key # dk}
        /\ Commit([Tables EXCEPT !.job_overrides = job_overrides'])
        /\ UNCHANGED <<jobs_seen, jobs_latest, run_jobs, run_job_audit, runs, clock, runvars,
                       call, reported_new, keyvars, sidevars>>

Next ==
    \/ upsert_override \/ delete_override
    \/ RunFetch \/ RunFetchWithAudit \/ Unpack \/ ApplyOverrides
    \/ MLSkipped \/ MLUnavailable \/ MLScoringRaises \/ MLScored
    \/ PersistKept \/ PersistMembership \/ FinishRun

Spec == Init /\ [][Next]_vars

(***************************************************************************)
(* The run: overrides, ML gate, membership and audit rows                  *)
(***************************************************************************)
Last(sq) == sq[Len(sq)]

IsPrefix(a, b) == Len(a) <= Len(b) /\ SubSeq(b, 1, Len(a)) = a

OverrideReason(action) ==
    IF action = "include" THEN Reason("override:", <<"force_include">>)
    ELSE Reason("override:", <<"force_exclude">>)

\* C1 as stated: when the override step of a run is over, every evaluated row
\* whose dedupe key has an override carries the override's decision whatever
\* the filter said (include -> 1, exclude -> 0), and its trail is the
\* filter's trail followed by the reason of the override.
C1_OverrideDominates ==
    pc = "ml" =>
        \A i \in 1..Len(audit_rows) :
            LET r      == audit_rows[i]
                action == OverrideAction(overrides, r.dedupe_key)
            IN  action # None =>
                    /\ r.audit_included = (IF action = "include" THEN 1 ELSE 0)
                    /\ r.audit_reasons = Append(raw_rows[i].audit_reasons, OverrideReason(action))

\* The hard gates the ML step may never undo
C2_HardGates == {"location:", "work_mode:", "remote_us:", "state:"}

\* C2: when the ML step of a run is over, a row whose decision differs from
\* the one it had before the step went from dropped to kept, in mode rescue
\* with ML enabled, with no hard-gate reason in its trail and a probability at
\* or above the rescue threshold, and its trail ends with ml:rescued; rows
\* with a hard-gate reason keep their decision.
C2_MLOnlyRescues ==
    pc = "persist" =>
        \A i \in 1..Len(audit_rows) :
            LET r == audit_rows[i]
                gated == \E n \in 1..Len(r.audit_reasons) :
                            \E pref \in C2_HardGates : StartsWith(r.audit_reasons[n], pref)
            IN  r.audit_included # pre_ml[i] =>
                    /\ pre_ml[i] = 0 /\ r.audit_included = 1
                    /\ settings.ml_enabled /\ settings.ml_mode = "rescue"
                    /\ ~gated
                    /\ r.dedupe_key \in DOMAIN ml_probs
                    /\ ml_probs[r.dedupe_key] >= settings.ml_rescue_threshold
                    /\ Last(r.audit_reasons) = Reason("ml:", <<"rescued">>)

\* a rescue run in which one dropped row was flipped while a hard-gated row
\* with a probability above the threshold stayed dropped
C2_Witness ==
    /\ pc = "persist"
    /\ \E i \in 1..Len(audit_rows) : pre_ml[i] = 0 /\ audit_rows[i].audit_included = 1
    /\ \E i \in 1..Len(audit_rows) :
          /\ has_hard_gate(audit_rows[i].audit_reasons)
          /\ audit_rows[i].dedupe_key \in DOMAIN ml_probs
          /\ ml_probs[audit_rows[i].dedupe_key] >= settings.ml_rescue_threshold
          /\ audit_rows[i].audit_included = 0

\* C3 as stated: after a run, run_jobs has exactly one row for the run and
\* the key of every evaluated job, and its included is the final decision
\* the run took for that job.
C3_MembershipFinalDecision ==
    pc = "done" =>
        \A i \in 1..Len(audit_rows) :
            LET rows == {m \in run_jobs : m.run_id = run_id
                                          /\ m.dedupe_key = audit_rows[i].dedupe_key}
            IN  /\ Cardinality(rows) = 1
                /\ \A m \in rows : m.included = audit_rows[i].audit_included

\* C4 as stated: when run_once is over, every job the filter evaluated, kept
\* or dropped, has exactly one row in run_job_audit under the run and its
\* dedupe key, and that row carries the job's reason trail in order.
C4_AuditRowPerEvaluatedJob ==
    pc \in {"done", "failed"} =>
        \A i \in 1..Len(raw_rows) :
            LET rows == {a \in run_job_audit : a.run_id = run_id
                                               /\ a.dedupe_key = build_dedupe_key(raw_rows[i].job)}
            IN  /\ Cardinality(rows) = 1
                /\ \A a \in rows : IsPrefix(raw_rows[i].audit_reasons, a.reasons)

\* C16 as stated: an invocation of run_once that is over has inserted exactly
\* one record for its run_id into runs, and the record carries the failures
\* of the source fetches of the run.
C16_RunAlwaysRecorded ==
    pc \in {"done", "failed"} =>
        /\ Cardinality({r \in runs : r.run_id = run_id}) = 1
        /\ \A r \in runs : r.run_id = run_id => r.source_errors = fetched[2]

C28_ExcludeOverrideWins ==
    pc = "done" =>
        \A i \in 1..Len(audit_rows) :
            LET dk == audit_rows[i].dedupe_key
            IN  OverrideAction(overrides, dk) = "exclude" =>
                    /\ \A n \in 1..Len(final_kept) : final_kept[n].dedupe_key # dk
                    /\ dk \notin upserted
                    /\ \A m \in run_jobs : (m.run_id = run_id /\ m.dedupe_key = dk) => m.included = 0
                    /\ \A a \in run_job_audit : (a.run_id = run_id /\ a.dedupe_key = dk) => a.included = 0

\* C29 as stated: when a run is over, the run upserted a key into jobs_seen
\* and jobs_latest exactly when the run's membership row of the key has
\* included = 1.
C29_UpsertedIffMember ==
    pc = "done" =>
        \A dk \in upserted \cup {audit_rows[i].dedupe_key : i \in 1..Len(audit_rows)} :
            dk \in upserted <=>
                \E m \in run_jobs : m.run_id = run_id /\ m.dedupe_key = dk /\ m.included = 1

\* C20: whatever the moment the process stops, the committed database (disk)
\* holds a first-seen or latest-snapshot row the run's state-engine call wrote
\* only together with the run's membership row and audit row of that key.
C20_PhaseCommittedTogether ==
    \A dk \in upserted :
        (\/ \E s \in disk.jobs_seen : s.dedupe_key = dk
         \/ \E l \in disk.jobs_latest : l.dedupe_key = dk) =>
            /\ \E m \in disk.run_jobs : m.run_id = run_id /\ m.dedupe_key = dk
            /\ \E a \in disk.run_job_audit : a.run_id = run_id /\ a.dedupe_key = dk

(***************************************************************************)
(* build_dedupe_key on pairs of jobs                                       *)
(***************************************************************************)
KeyUrls  == {NoText, <<" ">>, <<"a">>, <<"A", " ">>}
KeyIds   == {NoText, <<" ">>, <<"7">>}
KeyNames == {<<"c">>, <<"C">>}
KeyTitles == {<<"t">>, <<"T", " ">>}
KeyDescriptions == {<<"x">>, <<"y">>}

KeyJobs ==
    {[url |-> u, job_id |-> i, source_type |-> <<"g">>, company_name |-> c, title |-> t,
      location |-> NoText, department |-> NoText, team |-> NoText, description |-> d] :
        u \in KeyUrls, i \in KeyIds, c \in KeyNames, t \in KeyTitles, d \in KeyDescriptions}

InitKey ==
    /\ CoreInit
    /\ kjobs \in KeyJobs \X KeyJobs
    /\ kkeys = <<>>
    /\ SideIdle

ComputeKeys ==
    /\ kkeys = <<>>
    /\ kkeys' = <<build_dedupe_key(kjobs[1]), build_dedupe_key(kjobs[2])>>
    /\ UNCHANGED <<dbvars, clock, runvars, call, reported_new, kjobs, sidevars>>

NextKey == ComputeKeys

SpecKey == InitKey /\ [][NextKey]_vars

Blank(s) == \A i \in 1..Len(s) : s[i] = " "

\* C5: build_dedupe_key follows the precedence URL, then job_id, then the
\* fallback tuple: with a non-blank URL the key is "url:" + the digest of the
\* normalized URL whatever the other fields are (two jobs whose URLs normalize
\* alike get one key even when their descriptions, ids, names and titles
\* differ); with a blank URL and a non-blank job_id it is
\* "id:<source_type>:<company_name>:<job_id>"; otherwise it is "hash:" + the
\* digest of the normalized "company|title|location|department|team" text.
C5_KeyPrecedence ==
    kkeys # <<>> =>
      /\ \A i \in 1..2 :
           LET j == kjobs[i]
               k == kkeys[i]
           IN  /\ ~Blank(j.url) => k = <<"u", "r", "l", ":">> \o sha1_text(Norm(j.url))
               /\ (Blank(j.url) /\ ~Blank(j.job_id)) =>
                     k = <<"i", "d", ":">> \o j.source_type \o <<":">> \o j.company_name
                           \o <<":">> \o j.job_id
               /\ (Blank(j.url) /\ Blank(j.job_id)) =>
                     k = <<"h", "a", "s", "h", ":">> \o sha1_text(Norm(FallbackText(j)))
      /\ (~Blank(kjobs[1].url) /\ Norm(kjobs[1].url) = Norm(kjobs[2].url)) =>
             kkeys[1] = kkeys[2]
      /\ (~Blank(kjobs[1].url) /\ Blank(kjobs[2].url)) => kkeys[1] # kkeys[2]

C5_Witness ==
    /\ kkeys # <<>>
    /\ kjobs[1].url = <<"a">> /\ kjobs[2].url = <<"A", " ">>
    /\ kjobs[1].description # kjobs[2].description
    /\ kjobs[1].job_id = <<"7">> /\ kjobs[2].job_id = NoText
    /\ kjobs[1].company_name # kjobs[2].company_name
    /\ kkeys[1] = kkeys[2]

(***************************************************************************)
(* Properties of the state engine                                          *)
(***************************************************************************)
\* a step in which upsert_and_compute_new ran (to its commit or to a raise)
CallStep == call' # call /\ call'.outcome \in {"ok", "raised"}

Processed(c) == SubSeq(c.jobs, 1, c.done)

OneRowPerKey(tbl) == \A r1, r2 \in tbl : r1.dedupe_key = r2.dedupe_key => r1 = r2

\* index of the last job of the list that has key k
LastWithKey(jobs, k) ==
    CHOOSE i \in 1..Len(jobs) :
        /\ build_dedupe_key(jobs[i]) = k
        /\ \A j \in (i + 1)..Len(jobs) : build_dedupe_key(jobs[j]) # k

\* C6: once a key has a first_seen in jobs_seen, no call of
\* upsert_and_compute_new removes the key or changes that first_seen.
C6_FirstSeenImmutable ==
    [][CallStep =>
         \A r \in jobs_seen :
            \E r2 \in jobs_seen' :
                r2.dedupe_key = r.dedupe_key /\ r2.first_seen = r.first_seen]_vars

C6_Witness ==
    /\ call.outcome = "ok"
    /\ \E r \in jobs_seen :
          /\ r.dedupe_key \in JobKeys(call.jobs)
          /\ r.first_seen < call.now

\* C7: every row of jobs_seen has last_seen >= first_seen, and no call of
\* upsert_and_compute_new lowers the last_seen of a key.
C7_LastSeenOrder ==
    /\ [](\A r \in jobs_seen : r.last_seen >= r.first_seen)
    /\ [][CallStep =>
            \A r \in jobs_seen : \A r2 \in jobs_seen' :
                r2.dedupe_key = r.dedupe_key => r2.last_seen >= r.last_seen]_vars

C7_Witness ==
    /\ call.outcome = "ok"
    /\ \E r \in jobs_seen :
          /\ r.dedupe_key \in JobKeys(call.jobs)
          /\ r.last_seen = call.now
          /\ r.last_seen > r.first_seen

\* C8: jobs_latest has one row per dedupe key; a call of
\* upsert_and_compute_new leaves, for every key it processed, the fields of the
\* last job it processed with that key, and leaves every other row alone.
C8_LatestLastWriterWins ==
    /\ [](OneRowPerKey(jobs_latest))
    /\ [][CallStep =>
            LET done == Processed(call')
            IN  /\ \A k \in JobKeys(done) :
                      [dedupe_key |-> k, job |-> done[LastWithKey(done, k)]] \in jobs_latest'
                /\ \A r \in jobs_latest :
                      r.dedupe_key \notin JobKeys(done) => r \in jobs_latest'
                /\ \A r \in jobs_latest' :
                      r.dedupe_key \notin JobKeys(done) => r \in jobs_latest]_vars

C8_Witness ==
    /\ call.outcome = "ok"
    /\ \E r \in jobs_latest : \E s \in jobs_seen :
          /\ r.dedupe_key = s.dedupe_key
          /\ s.first_seen < s.last_seen
          /\ r.job = JobA2
          /\ call.jobs[Len(call.jobs)] = JobA2
    /\ \E r \in jobs_latest : r.dedupe_key \notin JobKeys(call.jobs)

FirstSeenOf(k) == (CHOOSE r \in jobs_seen : r.dedupe_key = k).first_seen

OneRowPerRunKey(tbl) ==
    \A r1, r2 \in tbl : (r1.run_id = r2.run_id /\ r1.dedupe_key = r2.dedupe_key) => r1 = r2

\* the tables after a completed repeat hold the list's keys once each, with
\* the snapshot of the last job of each key
RepeatEndState ==
    /\ OneRowPerKey(jobs_seen) /\ OneRowPerKey(jobs_latest) /\ OneRowPerRunKey(run_jobs)
    /\ \A k \in JobKeys(call.jobs) :
          /\ \E r \in jobs_seen : r.dedupe_key = k
          /\ [dedupe_key |-> k, job |-> call.jobs[LastWithKey(call.jobs, k)]] \in jobs_latest
          /\ (Truthy(call.run_id) /\ Truthy(call.settings_hash)) =>
                \E r \in run_jobs :
                    r.run_id = call.run_id /\ r.dedupe_key = k /\ r.included = 1

\* C9 as stated: after the repeat of a call with the same arguments the
\* tables are those of a single execution, in which every key that had no
\* identity row before carries one and the same first_seen.
C9_SameAsSingleExecution ==
    (call.again /\ call.outcome = "ok") =>
        /\ RepeatEndState
        /\ \E t \in 0..MaxClock : \A k \in call.fresh : FirstSeenOf(k) = t

\* C9 amended: the repeat of a call with the same arguments, after a complete
\* or a partial earlier execution, leaves each table with one row per key, the
\* list's keys present with the snapshot of the last job of each key, adds no
\* key outside the list, and keeps every first_seen stored before the repeat
\* (keys the partial execution reached keep its time, the others get the
\* repeat's).
C9_RepeatIdempotent ==
    /\ []((call.again /\ call.outcome = "ok") => RepeatEndState)
    /\ [][(CallStep /\ call'.again) =>
            /\ {r.dedupe_key : r \in jobs_seen'} =
                   {r.dedupe_key : r \in jobs_seen} \cup JobKeys(call.jobs)
            /\ {r.dedupe_key : r \in jobs_latest'} =
                   {r.dedupe_key : r \in jobs_latest} \cup JobKeys(call.jobs)
            /\ \A r \in jobs_seen :
                  \E r2 \in jobs_seen' :
                      r2.dedupe_key = r.dedupe_key /\ r2.first_seen = r.first_seen
            /\ (call.outcome = "ok") =>
                  /\ jobs_latest' = jobs_latest
                  /\ run_jobs' = run_jobs
                  /\ call'.new = <<>>]_vars

C9_Witness ==
    /\ call.again /\ call.outcome = "ok"
    /\ Len(call.jobs) = 2
    /\ Cardinality(call.fresh) = 2
    /\ \E k1, k2 \in call.fresh : FirstSeenOf(k1) < FirstSeenOf(k2)
    /\ Truthy(call.run_id)

\* C10: a call classifies a job as new exactly when its key has no jobs_seen
\* row at that moment (none before the call and none written earlier in the
\* same call) and then stores first_seen = now; every other job inherits the
\* stored first_seen. No key is in the new list of more than one returned call.
C10_NewExactlyWhenUnseen ==
    /\ [](\A k \in AllKeys : reported_new[k] <= 1)
    /\ [][CallStep =>
            LET done == Processed(call')
                unseen(i) ==
                    /\ \A r \in jobs_seen : r.dedupe_key # build_dedupe_key(done[i])
                    /\ \A j \in 1..(i - 1) :
                          build_dedupe_key(done[j]) # build_dedupe_key(done[i])
                newIdx == {i \in 1..Len(done) : unseen(i)}
            IN  /\ Len(call'.current) = Len(done)
                /\ Len(call'.new) = Cardinality(newIdx)
                /\ \A i \in newIdx :
                      /\ call'.current[i].first_seen = call'.now
                      /\ \E n \in 1..Len(call'.new) : call'.new[n] = call'.current[i]
                      /\ [dedupe_key |-> build_dedupe_key(done[i]),
                          first_seen |-> call'.now, last_seen |-> call'.now] \in jobs_seen'
                /\ \A i \in (1..Len(done)) \ newIdx :
                      /\ \A n \in 1..Len(call'.new) :
                            call'.new[n].job # done[i] \/
                            \E j \in newIdx : done[j] = done[i]
                      /\ \E r \in jobs_seen' :
                            /\ r.dedupe_key = build_dedupe_key(done[i])
                            /\ r.first_seen = call'.current[i].first_seen
                      /\ (\E r \in jobs_seen : r.dedupe_key = build_dedupe_key(done[i])) =>
                            call'.current[i].first_seen =
                                (CHOOSE r \in jobs_seen :
                                    r.dedupe_key = build_dedupe_key(done[i])).first_seen]_vars

C10_Witness ==
    /\ call.outcome = "ok"
    /\ Len(call.jobs) = 2 /\ Len(call.new) = 1
    /\ call.new[1].first_seen = call.now
    /\ \E i \in 1..2 : call.current[i].first_seen < call.now
    /\ \E k \in AllKeys : reported_new[k] = 1

(***************************************************************************)
(* FilterAgent                                                             *)
(***************************************************************************)
Digits == {"0", "1", "2", "3", "4", "5", "6", "7", "8", "9"}

IsUpper(c) == \E i \in 1..Len(UpperLetters) : UpperLetters[i] = c

\* str.upper()
UpperChar(c) ==
    IF \E i \in 1..Len(LowerLetters) : LowerLetters[i] = c
    THEN UpperLetters[CHOOSE i \in 1..Len(LowerLetters) : LowerLetters[i] = c]
    ELSE c

Upper(s) == [i \in 1..Len(s) |-> UpperChar(s[i])]

\* \w of the regular expressions
IsWordChar(c) == IsUpper(c) \/ UpperChar(c) # c \/ c \in Digits \/ c = "_"

\* \b between s[i] and s[i + 1] (i = 0: before the text, i = Len(s): after it)
WordBoundary(s, i) ==
    LET left  == i >= 1 /\ IsWordChar(s[i])
        right == i < Len(s) /\ IsWordChar(s[i + 1])
    IN  left # right

\* needle in haystack
Contains(haystack, needle) ==
    \E i \in 1..(Len(haystack) - Len(needle) + 1) :
        SubSeq(haystack, i, i + Len(needle) - 1) = needle

\* \b(word)\b found in s ignoring case; word is lower case
ContainsWord(s, word) ==
    \E i \in 1..(Len(s) - Len(word) + 1) :
        /\ Lower(SubSeq(s, i, i + Len(word) - 1)) = word
        /\ WordBoundary(s, i - 1)
        /\ WordBoundary(s, i + Len(word) - 1)

\* job_fetcher_legacy.py:92 US_HINT_RE.search
US_HINT_RE(s) ==
    \E word \in {<<"u", "n", "i", "t", "e", "d", " ", "s", "t", "a", "t", "e", "s">>, <<"u", ".", "s", ".", "a", ".">>, <<"u", "s", "a">>, <<"u", ".", "s", ".">>, <<"u", "s">>} : ContainsWord(s, word)

\* job_fetcher_legacy.py:91 STATE_RE.search: where the two capitals of the
\* leftmost match start, 0 without a match
STATE_RE(s) ==
    LET hits == {j \in 2..(Len(s) - 1) :
                    /\ s[j - 1] = "," \/ IsSpace(s[j - 1])
                    /\ IsUpper(s[j]) /\ IsUpper(s[j + 1])
                    /\ WordBoundary(s, j + 1) \/ j + 1 = Len(s)}
    IN  IF hits = {} THEN 0 ELSE CHOOSE j \in hits : \A k \in hits : j <= k

\* the separators of re.split(r"\bor\b|/|\||;|...") at position i: how many
\* characters the separator takes, 0 when none starts there
SeparatorAt(s, i) ==
    IF s[i] \in {"/", "|", ";"} THEN 1
    ELSE IF /\ i + 1 <= Len(s)
            /\ Lower(SubSeq(s, i, i + 1)) = <<"o", "r">>
            /\ WordBoundary(s, i - 1) /\ WordBoundary(s, i + 1)
         THEN 2
         ELSE 0

RECURSIVE SplitParts(_, _, _)
SplitParts(s, i, cur) ==
    IF i > Len(s) THEN <<cur>>
    ELSE IF SeparatorAt(s, i) > 0
         THEN <<cur>> \o SplitParts(s, i + SeparatorAt(s, i), <<>>)
         ELSE SplitParts(s, i + 1, Append(cur, s[i]))

\* the names of STATE_NAME_TO_CODE and CITY_TO_STATE that occur in the
\* locations of the model
STATE_NAME_TO_CODE == <<[name |-> <<"C", "A", "L", "I", "F", "O", "R", "N", "I", "A">>, code |-> <<"C", "A">>], [name |-> <<"T", "E", "X", "A", "S">>, code |-> <<"T", "X">>]>>

CITY_TO_STATE == <<[name |-> <<"S", "E", "A", "T", "T", "L", "E">>, code |-> <<"W", "A">>], [name |-> <<"A", "U", "S", "T", "I", "N">>, code |-> <<"T", "X">>]>>

\* re.sub(r"[^A-Z\s]", " ", part.upper()), whitespace collapsed and stripped
Cleaned(part) ==
    Strip(CollapseWs([i \in 1..Len(part) |->
        IF IsUpper(UpperChar(part[i])) \/ IsSpace(part[i]) THEN UpperChar(part[i]) ELSE " "]))

\* first entry of the table whose name occurs in text, 0 without one
FirstNamed(table, text) ==
    LET hits == {i \in 1..Len(table) : Contains(text, table[i].name)}
    IN  IF hits = {} THEN 0 ELSE CHOOSE i \in hits : \A k \in hits : i <= k

\* job_fetcher_legacy.py:266-280 for one part
StateOfPart(part) ==
    IF STATE_RE(part) > 0
    THEN LET j == STATE_RE(part) IN <<part[j], part[j + 1]>>
    ELSE IF FirstNamed(STATE_NAME_TO_CODE, Upper(part)) > 0
    THEN STATE_NAME_TO_CODE[FirstNamed(STATE_NAME_TO_CODE, Upper(part))].code
    ELSE IF FirstNamed(CITY_TO_STATE, Cleaned(part)) > 0
    THEN CITY_TO_STATE[FirstNamed(CITY_TO_STATE, Cleaned(part))].code
    ELSE <<>>

RECURSIVE FirstState(_)
FirstState(parts) ==
    IF parts = <<>> THEN <<>>
    ELSE IF Strip(Head(parts)) # <<>> /\ StateOfPart(Strip(Head(parts))) # <<>>
         THEN StateOfPart(Strip(Head(parts)))
         ELSE FirstState(Tail(parts))

\* job_fetcher_legacy.py:258-281; the empty text stands for None
extract_us_state_code(location_text) ==
    IF location_text = <<>> THEN <<>>
    ELSE FirstState(SplitParts(Strip(location_text), 1, <<>>))

\* job_fetcher_legacy.py:284-292
classify_work_mode(text) ==
    LET t == Lower(text)
    IN  IF Contains(t, <<"h", "y", "b", "r", "i", "d">>) THEN "hybrid"
        ELSE IF Contains(t, <<"r", "e", "m", "o", "t", "e">>) THEN "remote"
        ELSE IF Contains(t, <<"o", "n", "-", "s", "i", "t", "e">>) \/ Contains(t, <<"o", "n", "s", "i", "t", "e">>) \/ Contains(t, <<"o", "n", " ", "s", "i", "t", "e">>)
             THEN "onsite"
             ELSE "unknown"

\* job_fetcher_legacy.py:295-303; the second search looks for a subset of
\* what US_HINT_RE finds
is_remote_us(location_text) ==
    /\ Contains(Lower(location_text), <<"r", "e", "m", "o", "t", "e">>)
    /\ US_HINT_RE(location_text)

\* job_fetcher_legacy.py:306-311
is_us_location(location_text) ==
    /\ location_text # <<>>
    /\ \/ is_remote_us(location_text)
       \/ extract_us_state_code(location_text) # <<>>
       \/ US_HINT_RE(location_text)

NoVisaSponsorship ==
    <<"n", "o", " ", "v", "i", "s", "a", " ", "s", "p", "o", "n", "s", "o", "r", "s", "h", "i", "p">>

\* job_fetcher_legacy.py:55-75: the first and the fifth phrase of the list
DEFAULT_VISA_RESTRICTION_PHRASES ==
    <<NoVisaSponsorship, <<"w", "i", "l", "l", " ", "n", "o", "t", " ", "s", "p", "o", "n", "s", "o", "r">>>>

\* job_fetcher_legacy.py:1519-1534: the agent built from a config; none_keys
\* are the keys config.get() returns None for
FilterAgent(config) ==
    [role_keywords        |-> config.role_keywords,
     include_keywords     |-> config.include_keywords,
     exclude_keywords     |-> config.exclude_keywords \o
                                 (IF "visa_restriction_phrases" \in config.none_keys
                                  THEN DEFAULT_VISA_RESTRICTION_PHRASES
                                  ELSE config.visa_restriction_phrases),
     preferred_states     |-> [i \in 1..Len(config.preferred_states) |->
                                 Upper(config.preferred_states[i])],
     allow_remote_us      |-> config.allow_remote_us,
     work_mode_preference |-> config.work_mode_preference]

\* job_fetcher_legacy.py:1540-1546: the first needle that occurs; the empty
\* text stands for None (the callers test the result for truth)
RECURSIVE first_match(_, _)
first_match(haystack, needles) ==
    IF needles = <<>> THEN <<>>
    ELSE LET n2 == Lower(Strip(Head(needles)))
         IN  IF n2 # <<>> /\ Contains(Lower(haystack), n2)
             THEN Head(needles)
             ELSE first_match(haystack, Tail(needles))

NL == <<"\n">>

HayStack(job) == job.title \o NL \o job.description \o NL \o job.location

TitleDesc(job) == job.title \o NL \o job.description

\* job_fetcher_legacy.py:1585-1597
StateGate(agent, job, reasons) ==
    IF agent.preferred_states = <<>> THEN [keep |-> TRUE, reasons |-> reasons]
    ELSE LET st == extract_us_state_code(job.location)
         IN  IF st = <<>>
             THEN [keep |-> FALSE, reasons |-> Append(reasons, Reason("state:", <<"missing">>))]
             ELSE IF \A i \in 1..Len(agent.preferred_states) : agent.preferred_states[i] # st
             THEN [keep |-> FALSE, reasons |-> Append(reasons, Reason("state:", <<"not_allowed", st>>))]
             ELSE [keep |-> TRUE, reasons |-> Append(reasons, Reason("state:", <<"allowed", st>>))]

RemoteUsGate_FallsThrough(agent, job, reasons) ==
    IF ~agent.allow_remote_us
    THEN [keep |-> FALSE, reasons |-> Append(reasons, Reason("remote_us:", <<"blocked">>))]
    ELSE StateGate(agent, job, Append(reasons, Reason("remote_us:", <<"allowed">>)))

\* job_fetcher_legacy.py:1578-1583
RemoteUsGate(agent, job, reasons) ==
    IF ~agent.allow_remote_us
    THEN [keep |-> FALSE, reasons |-> Append(reasons, Reason("remote_us:", <<"blocked">>))]
    ELSE [keep |-> TRUE, reasons |-> Append(reasons, Reason("remote_us:", <<"allowed">>))]

\* job_fetcher_legacy.py:1574-1597
FromWorkMode(agent, job, reasons) ==
    IF agent.work_mode_preference # "any" /\ job.work_mode # agent.work_mode_preference
    THEN [keep |-> FALSE,
          reasons |-> Append(reasons, Reason("work_mode:",
                         <<"mismatch", job.work_mode, agent.work_mode_preference>>))]
    ELSE IF is_remote_us(job.location)
         THEN RemoteUsGate(agent, job, reasons)
         ELSE StateGate(agent, job, reasons)

\* job_fetcher_legacy.py:1567-1572
FromInclude(agent, job, reasons) ==
    IF agent.include_keywords = <<>> THEN FromWorkMode(agent, job, reasons)
    ELSE LET hit == first_match(HayStack(job), agent.include_keywords)
         IN  IF hit = <<>>
             THEN [keep |-> FALSE, reasons |-> Append(reasons, Reason("include_keywords:", <<"no_match">>))]
             ELSE FromWorkMode(agent, job, Append(reasons, Reason("include_keywords:", <<"matched", hit>>)))

FromRole_SilentPass(agent, job, reasons) ==
    IF agent.role_keywords = <<>> THEN FromInclude(agent, job, reasons)
    ELSE LET hit == first_match(TitleDesc(job), agent.role_keywords)
         IN  IF hit = <<>>
             THEN [keep |-> FALSE, reasons |-> Append(reasons, Reason("role_keywords:", <<"no_match">>))]
             ELSE FromInclude(agent, job, reasons)

\* job_fetcher_legacy.py:1559-1565
FromRole(agent, job, reasons) ==
    IF agent.role_keywords = <<>> THEN FromInclude(agent, job, reasons)
    ELSE LET hit == first_match(TitleDesc(job), agent.role_keywords)
         IN  IF hit = <<>>
             THEN [keep |-> FALSE, reasons |-> Append(reasons, Reason("role_keywords:", <<"no_match">>))]
             ELSE FromInclude(agent, job, Append(reasons, Reason("role_keywords:", <<"matched", hit>>)))

\* job_fetcher_legacy.py:1553-1557
FromExclude(agent, job, reasons) ==
    LET hit == first_match(HayStack(job), agent.exclude_keywords)
    IN  IF agent.exclude_keywords # <<>> /\ hit # <<>>
        THEN [keep |-> FALSE, reasons |-> Append(reasons, Reason("exclude:", <<"matched", hit>>))]
        ELSE FromRole(agent, job, reasons)

explain_ExcludeBeforeLocation(agent, job) ==
    IF agent.exclude_keywords # <<>> /\ first_match(HayStack(job), agent.exclude_keywords) # <<>>
    THEN FromExclude(agent, job, <<>>)
    ELSE IF ~is_us_location(job.location)
         THEN [keep |-> FALSE, reasons |-> <<Reason("location:", <<"not_us">>)>>]
         ELSE FromRole(agent, job, <<>>)

explain_SilentLocation(agent, job) ==
    IF ~is_us_location(job.location)
    THEN [keep |-> FALSE, reasons |-> <<>>]
    ELSE FromExclude(agent, job, <<>>)

\* job_fetcher_legacy.py:1548-1599
explain(agent, job) ==
    IF ~is_us_location(job.location)
    THEN [keep |-> FALSE, reasons |-> <<Reason("location:", <<"not_us">>)>>]
    ELSE FromExclude(agent, job, <<>>)

MaxInvocations == 2    \* invocations of explain on one (job, config) pair

FilterTitles == {<<"E", "n", "g">>, <<"C", "h", "e", "f">>}

FilterDescriptions ==
    {<<"g", "o">>, <<"o", "n", "s", "i", "t", "e", " ", "s", "q", "l">>,
     <<"g", "o", ",", " ">> \o NoVisaSponsorship}

FilterLocations ==
    {<<>>, <<"R", "e", "m", "o", "t", "e", " ", "-", " ", "U", "n", "i", "t", "e", "d", " ", "S", "t", "a", "t", "e", "s">>, <<"R", "e", "m", "o", "t", "e", " ", "U", "S">>, <<"R", "e", "m", "o", "t", "e">>, <<"R", "e", "m", "o", "t", "e", ",", " ", "C", "A">>, <<"A", "u", "s", "t", "i", "n", ",", " ", "T", "X">>,
     <<"U", "S">>, <<"B", "e", "r", "l", "i", "n">>, <<"T", "e", "x", "a", "s", "/", "R", "e", "n", "o", ",", " ", "N", "V">>, <<"S", "e", "a", "t", "t", "l", "e">>}

\* job_fetcher_legacy.py:1480-1512: what the normalizers set for the filter
NormalizedJob(title, location, description) ==
    [title |-> title, location |-> location, description |-> description,
     work_mode |-> classify_work_mode(title \o <<" ">> \o location \o <<" ">> \o description)]

FilterJobs ==
    {NormalizedJob(t, l, d) : t \in FilterTitles, l \in FilterLocations, d \in FilterDescriptions}

\* the filter's part of the settings get_settings returns; none_keys are the
\* keys the settings do not set
FilterSettings ==
    [role_keywords            : {<<>>, <<<<" ", "E", "n", "g", " ">>>>},
     include_keywords         : {<<>>, <<<<"g", "o">>>>},
     exclude_keywords         : {<<>>, <<<<"s", "q", "l">>>>},
     visa_restriction_phrases : {<<>>},
     preferred_states         : {<<>>, <<<<"t", "x">>>>},
     allow_remote_us          : BOOLEAN,
     work_mode_preference     : {"any", "remote", "onsite"},
     none_keys                : {{}, {"visa_restriction_phrases"}}]

\* legacy_config_builder.py:4-33: every list is settings.get(key) or [], so
\* the config has a value for every key
build_legacy_config(user_settings) ==
    [user_settings EXCEPT !.visa_restriction_phrases =
                         IF "visa_restriction_phrases" \in user_settings.none_keys THEN <<>> ELSE @,
                     !.none_keys = {}]

InitFilter ==
    /\ CoreInit /\ KeyIdle /\ TriggersIdle /\ LinksIdle /\ DiscoverIdle /\ SourcesIdle /\ PagesIdle /\ CareerIdle
    /\ fjob \in FilterJobs
    /\ fsettings \in FilterSettings
    /\ fconfig = build_legacy_config(fsettings)
    /\ explained = <<>>

\* one invocation of FilterAgent(config).explain(job)
Explain ==
    /\ Len(explained) < MaxInvocations
    /\ explained' = Append(explained, explain(FilterAgent(fconfig), fjob))
    /\ UNCHANGED <<mainvars, triggervars, linkvars, discovervars, fjob, fsettings, fconfig, sourcevars, pagevars, careervars>>

NextFilter == Explain

SpecFilter == InitFilter /\ [][NextFilter]_vars

(***************************************************************************)
(* FilterAgent.explain: gate order and reason trail                        *)
(***************************************************************************)
TheAgent == FilterAgent(fconfig)

\* the gates in the order of the specification
GateOf(reason) ==
    CASE reason.pre = "location:"         -> 1
      [] reason.pre = "exclude:"          -> 2
      [] reason.pre = "role_keywords:"    -> 3
      [] reason.pre = "include_keywords:" -> 4
      [] reason.pre = "work_mode:"        -> 5
      [] reason.pre = "remote_us:"        -> 6
      [] reason.pre = "state:"            -> 7
      [] OTHER                            -> 0

\* gate g has something to decide for the job under the configuration
GateApplies(g) ==
    CASE g = 1 -> TRUE
      [] g = 2 -> TheAgent.exclude_keywords # <<>>
      [] g = 3 -> TheAgent.role_keywords # <<>>
      [] g = 4 -> TheAgent.include_keywords # <<>>
      [] g = 5 -> TheAgent.work_mode_preference # "any"
      [] g = 6 -> is_remote_us(fjob.location)
      [] g = 7 -> TheAgent.preferred_states # <<>>

\* gate g, taken alone, rejects the job
GateRejects(g) ==
    /\ GateApplies(g)
    /\ CASE g = 1 -> ~is_us_location(fjob.location)
         [] g = 2 -> first_match(HayStack(fjob), TheAgent.exclude_keywords) # <<>>
         [] g = 3 -> first_match(TitleDesc(fjob), TheAgent.role_keywords) = <<>>
         [] g = 4 -> first_match(HayStack(fjob), TheAgent.include_keywords) = <<>>
         [] g = 5 -> fjob.work_mode # TheAgent.work_mode_preference
         [] g = 6 -> ~TheAgent.allow_remote_us
         [] g = 7 -> \A i \in 1..Len(TheAgent.preferred_states) :
                        TheAgent.preferred_states[i] # extract_us_state_code(fjob.location)

\* gate g ends the evaluation: it rejects, or it is the remote-US acceptance
GateStops(g) == GateRejects(g) \/ (g = 6 /\ GateApplies(6))

\* the first gate of the order that ends the evaluation, 8 when none does
FirstStop ==
    IF \E g \in 1..7 : GateStops(g)
    THEN CHOOSE g \in 1..7 : GateStops(g) /\ \A h \in 1..(g - 1) : ~GateStops(h)
    ELSE 8

\* C11: explain evaluates the gates in the order location, exclude keywords,
\* role keywords, include keywords, work mode, remote-US, preferred states:
\* the verdict is keep=false exactly when the first gate that ends the
\* evaluation rejects, the trail then ends with that gate's reason, no later
\* gate has a reason in the trail, and the reasons stand in gate order.
C11_FixedGateOrder ==
    LET stop == FirstStop
    IN  \A n \in 1..Len(explained) :
            LET res == explained[n]
                rs  == res.reasons
            IN  /\ res.keep = ~(stop <= 7 /\ GateRejects(stop))
                /\ \A i \in 1..Len(rs) : GateOf(rs[i]) \in 1..7 /\ GateOf(rs[i]) <= stop
                /\ \A i, j \in 1..Len(rs) : i < j => GateOf(rs[i]) < GateOf(rs[j])
                /\ stop <= 7 => rs # <<>> /\ GateOf(rs[Len(rs)]) = stop

\* a job that both the exclude gate and a later gate would reject, and a job
\* refused by the location gate although the exclude gate would refuse it too
C11_Witness ==
    /\ explained # <<>>
    /\ GateRejects(1) /\ GateRejects(2)
    /\ GateOf(explained[1].reasons[1]) = 1

\* C12 as stated: every gate that explain evaluates for the job (every gate
\* up to the one that ends the evaluation that has something to decide)
\* leaves a reason of its own in the trail.
C12_EveryGateLeavesReason ==
    \A n \in 1..Len(explained) :
        \A g \in 1..7 :
            (GateApplies(g) /\ g <= FirstStop) =>
                \E i \in 1..Len(explained[n].reasons) : GateOf(explained[n].reasons[i]) = g

\* the gates that append a reason when they let the job pass
C12_SpeakingGates == {3, 4, 7}

\* C12 amended: the gate that ends the evaluation leaves its reason last in
\* the trail; of the gates passed before it, the role-keyword, include-keyword
\* and preferred-states gates leave a reason when configured, the location,
\* exclude-keyword and work-mode gates leave none; no other reason is there.
C12_RejectsAndSpeakingPasses ==
    LET stop == FirstStop
    IN  \A n \in 1..Len(explained) :
            {GateOf(explained[n].reasons[i]) : i \in 1..Len(explained[n].reasons)} =
                {g \in 1..7 : \/ g = stop
                              \/ g < stop /\ g \in C12_SpeakingGates /\ GateApplies(g)}

\* a kept job that passed the location, exclude and role gates: the role gate
\* left its reason, the location and exclude gates none
C12_Witness ==
    /\ explained # <<>>
    /\ explained[1].keep
    /\ GateApplies(2) /\ GateApplies(3)
    /\ \E i \in 1..Len(explained[1].reasons) : GateOf(explained[1].reasons[i]) = 3
    /\ \A i \in 1..Len(explained[1].reasons) : GateOf(explained[1].reasons[i]) \notin {1, 2}

\* C13: every invocation of explain on the pair returns a verdict, the
\* verdict and the trail of every invocation are those of the first, and a
\* verdict keep=false comes with a non-empty trail.
C13_DeterministicTotal ==
    \A n \in 1..Len(explained) :
        /\ explained[n].keep \in BOOLEAN
        /\ explained[n] = explained[1]
        /\ ~explained[n].keep => explained[n].reasons # <<>>

C13_Witness ==
    /\ Len(explained) = MaxInvocations
    /\ ~explained[MaxInvocations].keep
    /\ GateRejects(1)

\* C14: for a job that no gate from location to work mode rejects and whose
\* location is remote-US, explain accepts with remote_us:allowed as the last
\* reason and no reason of the preferred-states gate when allow_remote_us is
\* set, and rejects with remote_us:blocked as the last reason when it is not.
C14_RemoteUsShortCircuit ==
    \A n \in 1..Len(explained) :
        LET res == explained[n]
            rs  == res.reasons
        IN  ((\A g \in 1..5 : ~GateRejects(g)) /\ is_remote_us(fjob.location)) =>
                /\ rs # <<>>
                /\ \A i \in 1..Len(rs) : GateOf(rs[i]) # 7
                /\ IF TheAgent.allow_remote_us
                   THEN res.keep /\ rs[Len(rs)] = Reason("remote_us:", <<"allowed">>)
                   ELSE ~res.keep /\ rs[Len(rs)] = Reason("remote_us:", <<"blocked">>)

\* a remote-US job accepted although the preferred-states gate would refuse it
C14_Witness ==
    /\ explained # <<>>
    /\ is_remote_us(fjob.location)
    /\ TheAgent.allow_remote_us
    /\ GateRejects(7)
    /\ explained[1].keep

(***************************************************************************)
(* fetch_all_sources                                                       *)
(***************************************************************************)
MaxSources == 3     \* sources in the config of one call

max_workers == 2    \* FETCH_MAX_WORKERS

agents == {"greenhouse", "lever", "career_url"}

\* sources a config can list: label and type as line 1622 and 1632 leave them
SourcePool ==
    {[label |-> "acme", type |-> "greenhouse", company_slug |-> "acme"],
     [label |-> "acme", type |-> "greenhouse", company_slug |-> ""],
     [label |-> "acme", type |-> "career_url", company_slug |-> ""],
     [label |-> "beta", type |-> "lever",      company_slug |-> "beta"],
     [label |-> "beta", type |-> "workday",    company_slug |-> ""],
     [label |-> "gamma", type |-> "lever",     company_slug |-> "gamma"]}

SourceLists == SeqsUpTo(SourcePool, MaxSources) \ {<<>>}

\* job_fetcher_legacy.py:1633: key = f"{label}:{src_type}"
ErrorKey(src) == <<src.label, ":", src.type>>

\* dict[key] = message
SetError(errs, key, message) ==
    {e \in errs : e.key # key} \cup {[key |-> key, message |-> message]}

\* errors.update(errs)
UpdateErrors(errs, more) ==
    {e \in errs : \A m \in more : m.key # e.key} \cup more

\* job_fetcher_legacy.py:1620-1623: the sources of a label, in config order
Grouped(srcs, label) == SelectSeq([i \in 1..Len(srcs) |-> i], LAMBDA i : srcs[i].label = label)

Labels(srcs) == {srcs[i].label : i \in 1..Len(srcs)}

\* the posting the agent of source i hands back and its normalizer wraps
PostingOf(srcs, i) == [source |-> i, company_label |-> srcs[i].label, source_type |-> srcs[i].type]

fetch_source_DropsCompany(task, srcs, i, raises) ==
    IF srcs[i].type \notin agents
    THEN [task EXCEPT !.errors = SetError(@, ErrorKey(srcs[i]), [kind |-> "unsupported", source |-> i])]
    ELSE IF srcs[i].type \in {"greenhouse", "lever"} /\ srcs[i].company_slug = ""
    THEN [task EXCEPT !.errors = SetError(@, ErrorKey(srcs[i]), [kind |-> "missing_slug", source |-> i])]
    ELSE IF raises
    THEN [task EXCEPT !.errors = SetError(@, ErrorKey(srcs[i]), [kind |-> "exception", source |-> i]),
                      !.jobs = <<>>]
    ELSE [task EXCEPT !.jobs = Append(@, PostingOf(srcs, i))]

\* job_fetcher_legacy.py:1631-1659: one pass of the loop over a company's
\* sources; raises says whether the agent's fetch raised
fetch_source(task, srcs, i, raises) ==
    IF srcs[i].type \notin agents
    THEN [task EXCEPT !.errors = SetError(@, ErrorKey(srcs[i]), [kind |-> "unsupported", source |-> i])]
    ELSE IF srcs[i].type \in {"greenhouse", "lever"} /\ srcs[i].company_slug = ""
    THEN [task EXCEPT !.errors = SetError(@, ErrorKey(srcs[i]), [kind |-> "missing_slug", source |-> i])]
    ELSE IF raises
    THEN [task EXCEPT !.errors = SetError(@, ErrorKey(srcs[i]), [kind |-> "exception", source |-> i])]
    ELSE [task EXCEPT !.jobs = Append(@, PostingOf(srcs, i))]

NewTask == [state |-> "queued", next |-> 1, jobs |-> <<>>, errors |-> {}]

InitSources ==
    /\ CoreInit /\ KeyIdle /\ TriggersIdle /\ LinksIdle /\ DiscoverIdle /\ FilterIdle /\ PagesIdle /\ CareerIdle
    /\ src_config \in SourceLists
    /\ company_tasks = [l \in Labels(src_config) |-> NewTask]
    /\ src_outcome = [i \in 1..Len(src_config) |-> "pending"]
    /\ all_jobs = <<>>
    /\ errors = {}
    /\ fa_pc = "running"

\* ThreadPoolExecutor: a queued task starts when a worker is free
StartCompany ==
    \E l \in DOMAIN company_tasks :
        /\ fa_pc = "running"
        /\ company_tasks[l].state = "queued"
        /\ Cardinality({k \in DOMAIN company_tasks : company_tasks[k].state = "running"}) < max_workers
        /\ company_tasks' = [company_tasks EXCEPT ![l].state = "running"]
        /\ UNCHANGED <<mainvars, triggervars, linkvars, discovervars, filtervars, pagevars, careervars, src_config, src_outcome, all_jobs, errors, fa_pc>>

\* fetch_company: the next source of a running company
FetchSource ==
    \E l \in DOMAIN company_tasks, raises \in BOOLEAN :
        LET task == company_tasks[l]
            mine == Grouped(src_config, l)
        IN  /\ task.state = "running"
            /\ task.next <= Len(mine)
            /\ LET i == mine[task.next]
                   after == fetch_source(task, src_config, i, raises)
               IN  /\ company_tasks' = [company_tasks EXCEPT ![l] = [after EXCEPT !.next = @ + 1]]
                   /\ src_outcome' = [src_outcome EXCEPT ![i] =
                          IF Len(after.jobs) > Len(task.jobs) THEN "fetched" ELSE "failed"]
            /\ UNCHANGED <<mainvars, triggervars, linkvars, discovervars, filtervars, pagevars, careervars, src_config, all_jobs, errors, fa_pc>>

\* fetch_company returns (label, company_jobs, company_errors)
FinishCompany ==
    \E l \in DOMAIN company_tasks :
        /\ company_tasks[l].state = "running"
        /\ company_tasks[l].next > Len(Grouped(src_config, l))
        /\ company_tasks' = [company_tasks EXCEPT ![l].state = "done"]
        /\ UNCHANGED <<mainvars, triggervars, linkvars, discovervars, filtervars, pagevars, careervars, src_config, src_outcome, all_jobs, errors, fa_pc>>

\* job_fetcher_legacy.py:1665-1668: as_completed hands over a finished task
CollectCompany ==
    \E l \in DOMAIN company_tasks :
        /\ fa_pc = "running"
        /\ company_tasks[l].state = "done"
        /\ all_jobs' = all_jobs \o company_tasks[l].jobs
        /\ errors' = UpdateErrors(errors, company_tasks[l].errors)
        /\ company_tasks' = [company_tasks EXCEPT ![l].state = "collected"]
        /\ UNCHANGED <<mainvars, triggervars, linkvars, discovervars, filtervars, pagevars, careervars, src_config, src_outcome, fa_pc>>

ReturnAll_FirstCompleted ==
    /\ fa_pc = "running"
    /\ \E l \in DOMAIN company_tasks : company_tasks[l].state = "collected"
    /\ fa_pc' = "returned"
    /\ UNCHANGED <<mainvars, triggervars, linkvars, discovervars, filtervars, pagevars, careervars, src_config, company_tasks, src_outcome, all_jobs, errors>>

\* job_fetcher_legacy.py:1663-1670: the with block is left, and the result
\* returned, when as_completed has handed over every future
ReturnAll ==
    /\ fa_pc = "running"
    /\ \A l \in DOMAIN company_tasks : company_tasks[l].state = "collected"
    /\ fa_pc' = "returned"
    /\ UNCHANGED <<mainvars, triggervars, linkvars, discovervars, filtervars, pagevars, careervars, src_config, company_tasks, src_outcome, all_jobs, errors>>

NextSources == StartCompany \/ FetchSource \/ FinishCompany \/ CollectCompany \/ ReturnAll

SpecSources == InitSources /\ [][NextSources]_vars

\* C15: when fetch_all_sources has returned, every source whose fetch failed
\* has an entry under "<label>:<type>" in the returned errors, and the posting
\* of every source whose fetch succeeded, of the same or of another company,
\* is in the returned list.
C15_FailureStaysLocal ==
    fa_pc = "returned" =>
        \A i \in 1..Len(src_config) :
            /\ src_outcome[i] = "failed" => \E e \in errors : e.key = ErrorKey(src_config[i])
            /\ src_outcome[i] = "fetched" =>
                  \E n \in 1..Len(all_jobs) : all_jobs[n] = PostingOf(src_config, i)

\* a failed source before a fetched one in the same company, and a fetched
\* source in another company
C15_Witness ==
    /\ fa_pc = "returned"
    /\ \E i, j, k \in 1..Len(src_config) :
          /\ i < j
          /\ src_config[i].label = src_config[j].label
          /\ src_config[k].label # src_config[i].label
          /\ \E e \in errors : e.key = ErrorKey(src_config[i]) /\ e.message.kind = "exception"
          /\ src_outcome[i] = "failed" /\ src_outcome[j] = "fetched" /\ src_outcome[k] = "fetched"

(***************************************************************************)
(* CareerUrlAgent._iterate_list_pages                                      *)
(***************************************************************************)
MaxPagesArg == 2      \* largest max_pages handed to _iterate_list_pages

MaxLinks == 2         \* most links _discover_pagination_candidates finds on a page

MaxFetchTime == 2     \* longest a page fetch takes

time_budget_s == 2

Url(netloc, path) == [netloc |-> netloc, path |-> path]

\* the start URL, a second page of its host, and a page of another host
StartUrl == Url("host", "/jobs")

PageUrls == {StartUrl, Url("host", "/jobs?page=2"), Url("other", "/jobs")}

NoDuplicates(sq) == \A i, j \in 1..Len(sq) : i # j => sq[i] # sq[j]

\* job_fetcher_legacy.py:736-820: the next/last/page= links of a page, made
\* absolute and without duplicates
NextLinkLists == {l \in SeqsUpTo(PageUrls, MaxLinks) : NoDuplicates(l)}

\* job_fetcher_legacy.py:822-857: the page= and skip/offset/start URLs built
\* from final_url
SyntheticLists(final_url) ==
    {<<>>, <<Url(final_url.netloc, "/jobs?page=2")>>}

\* job_fetcher_legacy.py:663-664
PageCap(max_pages) == IF max_pages <= 1 THEN 1 ELSE max_pages

RECURSIVE AppendUnseen(_, _, _)
AppendUnseen(q, urls, seen) ==
    IF urls = <<>> THEN q
    ELSE AppendUnseen(IF Head(urls) \in seen THEN q ELSE Append(q, Head(urls)), Tail(urls), seen)

\* job_fetcher_legacy.py:714-719: the next links of the base host not yet seen
QueueNextLinks(q, links, seen, base_netloc) ==
    AppendUnseen(q, SelectSeq(links, LAMBDA nu : nu.netloc = base_netloc), seen)

\* job_fetcher_legacy.py:676-683
InitPages ==
    /\ CoreInit /\ KeyIdle /\ TriggersIdle /\ LinksIdle /\ DiscoverIdle /\ FilterIdle /\ SourcesIdle /\ CareerIdle
    /\ pg_max_pages \in 0..MaxPagesArg
    /\ pg_q = <<StartUrl>>
    /\ pg_seen = {}
    /\ pg_out = <<>>
    /\ pg_clock = 0
    /\ pg_log = <<>>
    /\ pg_pc = "loop"

\* job_fetcher_legacy.py:685: the test of the while loop (start is 0)
LoopTest ==
    pg_q # <<>> /\ Len(pg_out) < PageCap(pg_max_pages) /\ pg_clock <= time_budget_s

Skipped_SeenIgnored(u) == u.netloc # StartUrl.netloc

\* job_fetcher_legacy.py:690-693: URLs the loop drops without a fetch
Skipped(u) == u.netloc # StartUrl.netloc \/ u \in pg_seen

\* job_fetcher_legacy.py:685-693
PopSkip ==
    /\ pg_pc = "loop" /\ LoopTest
    /\ Skipped(Head(pg_q))
    /\ pg_q' = Tail(pg_q)
    /\ UNCHANGED <<mainvars, triggervars, linkvars, discovervars, filtervars, sourcevars, careervars, pg_max_pages, pg_seen, pg_out, pg_clock,
                   pg_log, pg_pc>>

\* the fetch of the head of the queue starts now and takes d
StartFetch(d) ==
    /\ pg_pc = "loop" /\ LoopTest
    /\ ~Skipped(Head(pg_q))
    /\ pg_log' = Append(pg_log, [url |-> Head(pg_q), at |-> pg_clock,
                                 seen |-> Head(pg_q) \in pg_seen])
    /\ pg_clock' = pg_clock + d
    /\ UNCHANGED <<mainvars, triggervars, linkvars, discovervars, filtervars, sourcevars, careervars, pg_max_pages>>

\* job_fetcher_legacy.py:695-698: fetch_one raises
FetchRaises ==
    \E d \in 0..MaxFetchTime :
        /\ StartFetch(d)
        /\ pg_q' = Tail(pg_q)
        /\ UNCHANGED <<pg_seen, pg_out, pg_pc>>

\* job_fetcher_legacy.py:700-702: fetch_one returns no html
FetchEmpty ==
    \E d \in 0..MaxFetchTime :
        /\ StartFetch(d)
        /\ pg_q' = Tail(pg_q)
        /\ pg_seen' = pg_seen \cup {Head(pg_q)}
        /\ UNCHANGED <<pg_out, pg_pc>>

\* job_fetcher_legacy.py:704-732: a page came back, possibly after a redirect
FetchPage ==
    \E d \in 0..MaxFetchTime, final_url \in PageUrls, next_links \in NextLinkLists :
        \E synth \in SyntheticLists(final_url) :
            LET u == Head(pg_q)
                seen == pg_seen \cup {u, final_url}
            IN  /\ StartFetch(d)
                /\ pg_seen' = seen
                /\ pg_out' = Append(pg_out, [html |-> u, final_url |-> final_url])
                /\ IF Len(pg_out') >= PageCap(pg_max_pages) \/ pg_clock' > time_budget_s
                   THEN pg_q' = Tail(pg_q) /\ pg_pc' = "returned"
                   ELSE /\ pg_q' = AppendUnseen(
                                      QueueNextLinks(Tail(pg_q), next_links, seen, StartUrl.netloc),
                                      synth, seen)
                        /\ pg_pc' = "loop"

\* job_fetcher_legacy.py:685 and 734: the loop test fails, out is returned
LoopExit ==
    /\ pg_pc = "loop" /\ ~LoopTest
    /\ pg_pc' = "returned"
    /\ UNCHANGED <<mainvars, triggervars, linkvars, discovervars, filtervars, sourcevars, careervars, pg_max_pages, pg_q, pg_seen, pg_out,
                   pg_clock, pg_log>>

NextPages == PopSkip \/ FetchRaises \/ FetchEmpty \/ FetchPage \/ LoopExit

\* the loop is a sequential program: it takes its next step as long as it has one
SpecPages == InitPages /\ [][NextPages]_vars /\ WF_vars(NextPages)

Max(a, b) == IF a >= b THEN a ELSE b

\* every page fetch started within the time budget, and on a URL not in seen
FetchesInBudgetAndUnseen ==
    \A i \in 1..Len(pg_log) : pg_log[i].at <= time_budget_s /\ ~pg_log[i].seen

\* C17 as stated: at most max_pages pages are returned, no page fetch starts
\* after the time budget has elapsed, and no URL of the seen set is fetched
\* again.
C17_AtMostMaxPages ==
    /\ Len(pg_out) <= pg_max_pages
    /\ FetchesInBudgetAndUnseen

\* C17, amended: _iterate_list_pages terminates for every link structure: it
\* returns at most max(max_pages, 1) pages, starts no page fetch after the
\* time budget has elapsed, and never fetches again a URL of its seen set.
C17_TerminatesWithinCaps ==
    /\ [](Len(pg_out) <= Max(pg_max_pages, 1) /\ FetchesInBudgetAndUnseen)
    /\ <>(pg_pc = "returned")

\* a page was fetched and the queue now offers a URL that is already in seen
C17_Witness ==
    /\ pg_pc = "loop" /\ LoopTest
    /\ pg_log # <<>>
    /\ Head(pg_q) \in pg_seen

(***************************************************************************)
(* CareerUrlAgent.fetch                                                    *)
(***************************************************************************)
MaxListPages == 2     \* most pages _iterate_list_pages hands to fetch

MaxPostings == 2      \* most postings an extractor or an API call yields

GhJid == <<"g", "h", "_", "j", "i", "d", "=">>

\* posting URLs: two spellings of one URL that differ in trailing blanks, a
\* second job URL in capitals, a page that is no job, and no URL at all
PostingUrls ==
    {GhJid \o <<"1">>, GhJid \o <<"1", " ">>, Upper(GhJid) \o <<"2">>, <<"a", "b", "o", "u", "t">>, <<>>}

RawJob(absolute_url, source) == [absolute_url |-> absolute_url, source |-> source]

RawJobs(urls, source) == [i \in 1..Len(urls) |-> RawJob(urls[i], source)]

\* job_fetcher_legacy.py:1004-1015
RECURSIVE dedupe_from(_, _)
dedupe_from(jobs, seen) ==
    IF jobs = <<>> THEN <<>>
    ELSE LET u == Strip(Head(jobs).absolute_url)
         IN  IF u = <<>> \/ u \in seen
             THEN dedupe_from(Tail(jobs), seen)
             ELSE <<Head(jobs)>> \o dedupe_from(Tail(jobs), seen \cup {u})

_dedupe_jobs_by_url(jobs) == dedupe_from(jobs, {})

\* job_fetcher_legacy.py:1018-1034; of its patterns the posting URLs above
\* can only match gh_jid=
is_high_signal_job_url(u) == Contains(Lower(u), GhJid)

\* job_fetcher_legacy.py:1036-1041
_keep_high_signal_jobs(jobs) ==
    SelectSeq(jobs, LAMBDA j : Strip(j.absolute_url) # <<>>
                               /\ is_high_signal_job_url(Strip(j.absolute_url)))

Ats(type, slug) == [type |-> type, slug |-> slug]

\* job_fetcher_legacy.py:1085
rank(type) == IF type = "greenhouse" THEN 0 ELSE 1

\* job_fetcher_legacy.py:1086-1093
RECURSIVE uniq_from(_, _)
uniq_from(found, seen) ==
    IF found = <<>> THEN <<>>
    ELSE IF Head(found) \in seen THEN uniq_from(Tail(found), seen)
         ELSE <<Head(found)>> \o uniq_from(Tail(found), seen \cup {Head(found)})

SortsBefore(a, b) ==
    \/ rank(a.type) < rank(b.type)
    \/ rank(a.type) = rank(b.type) /\ Len(a.slug) < Len(b.slug)

\* list.sort is stable: x goes behind everything that does not sort after it
RECURSIVE InsertSorted(_, _)
InsertSorted(sorted, x) ==
    IF sorted = <<>> THEN <<x>>
    ELSE IF SortsBefore(x, Head(sorted)) THEN <<x>> \o sorted
         ELSE <<Head(sorted)>> \o InsertSorted(Tail(sorted), x)

RECURSIVE SortRanked(_)
SortRanked(found) ==
    IF found = <<>> THEN <<>>
    ELSE InsertSorted(SortRanked(SubSeq(found, 1, Len(found) - 1)), found[Len(found)])

\* job_fetcher_legacy.py:1084-1096, on the matches found in the page
_detect_embedded_ats(page) ==
    LET ranked == SortRanked(uniq_from(page.found, {}))
    IN  SubSeq(ranked, 1, IF Len(ranked) < 5 THEN Len(ranked) ELSE 5)

\* a fetched page by what the extractors and the detector find in it
Page(listing, json, found) == [listing |-> listing, json |-> json, found |-> found]

Acme == <<"a", "c", "m", "e">>

PagePool ==
    LET one == <<GhJid \o <<"1">>>>
        two == <<GhJid \o <<"1", " ">>, Upper(GhJid) \o <<"2">>>>
        low == <<<<"a", "b", "o", "u", "t">>>>
        gh  == <<Ats("greenhouse", Acme)>>
        lvgh == <<Ats("lever", <<"a">>), Ats("greenhouse", Acme), Ats("lever", <<"a">>)>>
    IN  {Page(<<>>, <<>>, <<>>), Page(one, <<>>, <<>>), Page(two, low, <<>>),
         Page(<<>>, one \o low, <<>>), Page(<<>>, <<>>, gh), Page(one, <<>>, gh),
         Page(<<>>, low, lvgh)}

RECURSIVE Extend(_, _)
Extend(pages, field) ==
    IF pages = <<>> THEN <<>> ELSE Head(pages)[field] \o Extend(Tail(pages), field)

ListingJobs(pages) == _dedupe_jobs_by_url(RawJobs(Extend(pages, "listing"), "listing"))

JsonJobs(pages) ==
    _dedupe_jobs_by_url(_keep_high_signal_jobs(RawJobs(Extend(pages, "json"), "json")))

\* job_fetcher_legacy.py:510-528: the source entry, the environment and the
\* pages _iterate_list_pages came back with
InitCareer ==
    /\ CoreInit /\ KeyIdle /\ TriggersIdle /\ LinksIdle /\ DiscoverIdle /\ FilterIdle /\ SourcesIdle /\ PagesIdle
    /\ cf_src \in [url : {<<" ">>, <<"u">>}, mode : {"requests", "playwright"}]
    /\ cf_env \in [CAREERURL_AUTO_PLAYWRIGHT : {"1", "0"}, CAREERURL_PLAYWRIGHT : {"1", "0"}]
    /\ cf_pages \in SeqsUpTo(PagePool, MaxListPages)
    /\ cf_detected = <<>>
    /\ cf_api = <<>>
    /\ cf_result = <<>>
    /\ cf_via = "none"
    /\ cf_pc = "start"

Return(jobs, via) ==
    /\ cf_result' = jobs
    /\ cf_via' = via
    /\ cf_pc' = "returned"

\* job_fetcher_legacy.py:511-539
ListingStrategy ==
    /\ cf_pc = "start"
    /\ IF Strip(cf_src.url) = <<>> THEN Return(<<>>, "no_url")
       ELSE IF cf_pages = <<>> THEN Return(<<>>, "no_pages")
       ELSE IF ListingJobs(cf_pages) # <<>> THEN Return(ListingJobs(cf_pages), "listing")
       ELSE cf_pc' = "json" /\ UNCHANGED <<cf_result, cf_via>>
    /\ UNCHANGED <<mainvars, triggervars, linkvars, discovervars, filtervars, sourcevars, pagevars, cf_src, cf_env, cf_pages,
                   cf_detected, cf_api>>

\* job_fetcher_legacy.py:541-559
JsonStrategy ==
    /\ cf_pc = "json"
    /\ IF JsonJobs(cf_pages) # <<>>
       THEN Return(JsonJobs(cf_pages), "json") /\ UNCHANGED cf_detected
       ELSE /\ cf_pc' = "ats"
            /\ cf_detected' = _detect_embedded_ats(cf_pages[1])
            /\ UNCHANGED <<cf_result, cf_via>>
    /\ UNCHANGED <<mainvars, triggervars, linkvars, discovervars, filtervars, sourcevars, pagevars, cf_src, cf_env, cf_pages, cf_api>>

\* what GreenhouseAgent.fetch or LeverAgent.fetch does: it raises, or it
\* returns the postings of the board as the API lists them
ApiOutcomes ==
    {[raises |-> TRUE, jobs |-> <<>>]}
        \cup {[raises |-> FALSE, jobs |-> l] : l \in SeqsUpTo(PostingUrls \ {<<>>}, MaxPostings)}

\* job_fetcher_legacy.py:561-587 and 615-643: one round of the loop over detected
AtsDiscovery ==
    /\ cf_pc \in {"ats", "pw_ats"}
    /\ cf_detected # <<>>
    /\ \E outcome \in ApiOutcomes :
        LET d == Head(cf_detected)
        IN  /\ cf_api' = Append(cf_api, [type |-> d.type, slug |-> d.slug, outcome |-> outcome])
            /\ IF ~outcome.raises /\ outcome.jobs # <<>>
               THEN Return(RawJobs(outcome.jobs, d.type), cf_pc) /\ UNCHANGED cf_detected
               ELSE cf_detected' = Tail(cf_detected) /\ UNCHANGED <<cf_result, cf_via, cf_pc>>
    /\ UNCHANGED <<mainvars, triggervars, linkvars, discovervars, filtervars, sourcevars, pagevars, cf_src, cf_env, cf_pages>>

\* job_fetcher_legacy.py:592-593
AutoPlaywright ==
    /\ cf_src.mode = "requests"
    /\ cf_env.CAREERURL_AUTO_PLAYWRIGHT = "1"
    /\ cf_env.CAREERURL_PLAYWRIGHT = "1"

\* job_fetcher_legacy.py:560-561, 589-593, 614-615: nothing detected is left to try
AtsExhausted ==
    /\ cf_pc \in {"ats", "pw_ats"}
    /\ cf_detected = <<>>
    /\ cf_pc' = IF cf_pc = "ats" /\ AutoPlaywright THEN "playwright" ELSE "fallback"
    /\ UNCHANGED <<mainvars, triggervars, linkvars, discovervars, filtervars, sourcevars, pagevars, cf_src, cf_env, cf_pages,
                   cf_detected, cf_api, cf_result, cf_via>>

\* job_fetcher_legacy.py:594-613 and 644-645: the page is rendered once more
PlaywrightRetry ==
    /\ cf_pc = "playwright"
    /\ \E outcome \in {"raises", "no_html", "html"}, rendered \in PagePool :
        IF outcome # "html"
        THEN cf_pc' = "fallback" /\ UNCHANGED <<cf_result, cf_via, cf_detected>>
        ELSE IF ListingJobs(<<rendered>>) # <<>>
        THEN Return(ListingJobs(<<rendered>>), "pw_listing") /\ UNCHANGED cf_detected
        ELSE IF JsonJobs(<<rendered>>) # <<>>
        THEN Return(JsonJobs(<<rendered>>), "pw_json") /\ UNCHANGED cf_detected
        ELSE /\ cf_pc' = "pw_ats"
             /\ cf_detected' = _detect_embedded_ats(rendered)
             /\ UNCHANGED <<cf_result, cf_via>>
    /\ UNCHANGED <<mainvars, triggervars, linkvars, discovervars, filtervars, sourcevars, pagevars, cf_src, cf_env, cf_pages, cf_api>>

\* job_fetcher_legacy.py:647-650
FallbackDetailFetch ==
    /\ cf_pc = "fallback"
    /\ \E links \in SeqsUpTo(PostingUrls, MaxPostings) :
        Return(_dedupe_jobs_by_url(RawJobs(links, "detail")), "fallback")
    /\ UNCHANGED <<mainvars, triggervars, linkvars, discovervars, filtervars, sourcevars, pagevars, cf_src, cf_env, cf_pages,
                   cf_detected, cf_api>>

NextCareer ==
    \/ ListingStrategy
    \/ JsonStrategy
    \/ AtsDiscovery
    \/ AtsExhausted
    \/ PlaywrightRetry
    \/ FallbackDetailFetch

SpecCareer == InitCareer /\ [][NextCareer]_vars

AbsoluteUrls(jobs) == [i \in 1..Len(jobs) |-> jobs[i].absolute_url]

\* the page fetch was given carries an ATS identity
CarriesAtsIdentity ==
    /\ Strip(cf_src.url) # <<>>
    /\ cf_pages # <<>>
    /\ _detect_embedded_ats(cf_pages[1]) # <<>>

\* C18: when the career page carries an embedded Greenhouse or Lever
\* identity, what fetch returns is the result of the API agent, never scraped
\* postings.
C18_AutoDiscoveryFirst ==
    (cf_pc = "returned" /\ CarriesAtsIdentity) =>
        /\ cf_via \in {"ats", "pw_ats"}
        /\ \A i \in 1..Len(cf_result) : cf_result[i].source \in {"greenhouse", "lever"}

\* C19: no list fetch returns holds two postings with the same absolute URL.
C19_NoDuplicateUrls ==
    cf_pc = "returned" => NoDuplicates(AbsoluteUrls(cf_result))

(***************************************************************************)
(* core/source_discovery.py: discover_sources                              *)
(***************************************************************************)
MaxSeeds == 2         \* longest seed_sources list

max_checks_per_type == 14

_RESERVED_GH_SLUGS == {"embed", "jobs", "job", "departments", "department", "board", "boards"}

Candidate(type, slug, url) == [type |-> type, slug |-> slug, url |-> url, verified |-> FALSE]

\* source_discovery.py:366-373: the seeds that become candidates
SeedCandidates(seed_sources) ==
    LET usable(s) == /\ s.type \in {"greenhouse", "lever"}
                     /\ s.slug # ""
                     /\ ~(s.type = "greenhouse" /\ s.slug \in _RESERVED_GH_SLUGS)
        kept == SelectSeq(seed_sources, usable)
    IN  [i \in 1..Len(kept) |-> Candidate(kept[i].type, kept[i].slug, "")]

\* source_discovery.py:376-384
DetectedCandidates(detected) ==
    SelectSeq(detected, LAMBDA c : ~(c.type = "greenhouse" /\ c.slug # ""
                                     /\ c.slug \in _RESERVED_GH_SLUGS))

\* source_discovery.py:386-394 and 435-443: the first candidate of each key stays
RECURSIVE DedupeCandidates(_, _)
DedupeCandidates(candidates, seen) ==
    IF candidates = <<>> THEN <<>>
    ELSE LET c == Head(candidates)
             key == <<c.type, c.slug, c.url>>
         IN  IF key \in seen THEN DedupeCandidates(Tail(candidates), seen)
             ELSE <<c>> \o DedupeCandidates(Tail(candidates), seen \cup {key})

Take(sq, n) == SubSeq(sq, 1, IF Len(sq) < n THEN Len(sq) ELSE n)

\* source_discovery.py:264-320: the Greenhouse and Lever candidates with a
\* slug, at most max_checks_per_type of each, get the answer of their API
\* check; the others pass through. ok is the set of (type, slug) the APIs
\* accept. The order of the result (the sort of 311-319) is not read by
\* discover_sources before line 452 and is left as it is.
verify_candidates(candidates, ok) ==
    LET gh == Take(SelectSeq(candidates, LAMBDA c : c.type = "greenhouse" /\ c.slug # ""),
                   max_checks_per_type)
        lv == Take(SelectSeq(candidates, LAMBDA c : c.type = "lever" /\ c.slug # ""),
                   max_checks_per_type)
        others == SelectSeq(candidates,
                            LAMBDA c : ~(c.type \in {"greenhouse", "lever"} /\ c.slug # ""))
        to_check == gh \o lv
    IN  [i \in 1..Len(to_check) |->
            [to_check[i] EXCEPT !.verified = <<to_check[i].type, to_check[i].slug>> \in ok]]
        \o others

\* source_discovery.py:403-405
any_verified_primary(verified) ==
    \E i \in 1..Len(verified) :
        verified[i].type \in {"greenhouse", "lever"} /\ verified[i].verified

should_guess_UnknownModeGuesses(discovery_mode, verified) ==
    IF discovery_mode = <<"e", "x", "p", "a", "n", "d">> THEN TRUE
    ELSE IF discovery_mode = <<"v", "a", "l", "i", "d", "a", "t", "e", "_", "e", "x", "i", "s", "t", "i", "n", "g">>
         THEN ~any_verified_primary(verified)
         ELSE TRUE

\* source_discovery.py:408-416
should_guess(discovery_mode, verified) ==
    IF discovery_mode = <<"e", "x", "p", "a", "n", "d">> THEN TRUE
    ELSE IF discovery_mode = <<"v", "a", "l", "i", "d", "a", "t", "e", "_", "e", "x", "i", "s", "t", "i", "n", "g">>
         THEN ~any_verified_primary(verified)
         ELSE ~any_verified_primary(verified)

\* source_discovery.py:357
NormalizedMode(discovery_mode) ==
    IF discovery_mode = <<>>
    THEN <<"v", "a", "l", "i", "d", "a", "t", "e", "_", "e", "x", "i", "s", "t", "i", "n", "g">>
    ELSE Lower(Strip(discovery_mode))

DiscoveryModes ==
    {<<>>, <<"v", "a", "l", "i", "d", "a", "t", "e", "_", "e", "x", "i", "s", "t", "i", "n", "g">>,
     <<"e", "x", "p", "a", "n", "d">>, <<" ", "E", "x", "p", "a", "n", "d">>, <<"f", "u", "l", "l">>}

SeedPool ==
    {[type |-> "greenhouse", slug |-> "acme"], [type |-> "lever", slug |-> "acme"],
     [type |-> "greenhouse", slug |-> "embed"], [type |-> "career_url", slug |-> ""]}

\* what detect_ats_from_career_url finds on the career page (141-230)
DetectedLists ==
    {<<>>, <<Candidate("career_url", "", "u")>>,
     <<Candidate("lever", "acme", ""), Candidate("career_url", "", "u")>>}

\* what guess_slugs makes of company_name (66-131)
GuessLists == {<<>>, <<"acme", "acmehq">>}

VerifiableKeys == {<<"greenhouse", "acme">>, <<"lever", "acme">>, <<"lever", "acmehq">>}

InitDiscover ==
    /\ CoreInit /\ KeyIdle /\ TriggersIdle /\ LinksIdle /\ FilterIdle /\ SourcesIdle /\ PagesIdle /\ CareerIdle
    /\ ds_in \in [discovery_mode : DiscoveryModes,
                  seed_sources : SeqsUpTo(SeedPool, MaxSeeds),
                  detected : DetectedLists,
                  guesses : GuessLists]
    /\ ds_pass1 = <<>>
    /\ ds_verified1 = <<>>
    /\ ds_guessed = FALSE
    /\ ds_final = <<>>
    /\ ds_pc = "pass1"

\* source_discovery.py:356-401: pass 1 on the seeds and the career page
Pass1 ==
    /\ ds_pc = "pass1"
    /\ ds_pass1' = DedupeCandidates(SeedCandidates(ds_in.seed_sources)
                                      \o DetectedCandidates(ds_in.detected), {})
    /\ \E ok \in SUBSET VerifiableKeys : ds_verified1' = verify_candidates(ds_pass1', ok)
    /\ ds_pc' = "decide"
    /\ UNCHANGED <<mainvars, triggervars, linkvars, filtervars, sourcevars, pagevars, careervars, ds_in, ds_guessed, ds_final>>

\* source_discovery.py:403-421
Decide ==
    /\ ds_pc = "decide"
    /\ ds_guessed' = should_guess(NormalizedMode(ds_in.discovery_mode), ds_verified1)
    /\ ds_final' = ds_verified1
    /\ ds_pc' = IF ds_guessed' THEN "pass2" ELSE "returned"
    /\ UNCHANGED <<mainvars, triggervars, linkvars, filtervars, sourcevars, pagevars, careervars, ds_in, ds_pass1, ds_verified1>>

\* source_discovery.py:426-433
GuessCandidates(guesses) ==
    LET usable == SelectSeq(guesses, LAMBDA g : g # "" /\ g \notin _RESERVED_GH_SLUGS)
    IN  [i \in 1..(2 * Len(usable)) |->
            Candidate(IF i % 2 = 1 THEN "greenhouse" ELSE "lever", usable[(i + 1) \div 2], "")]

\* source_discovery.py:423-450: pass 2, the guessed slugs are verified as well
Pass2 ==
    /\ ds_pc = "pass2"
    /\ \E ok \in SUBSET VerifiableKeys :
          ds_final' = verify_candidates(
                          DedupeCandidates(ds_pass1 \o GuessCandidates(ds_in.guesses), {}), ok)
    /\ ds_pc' = "returned"
    /\ UNCHANGED <<mainvars, triggervars, linkvars, filtervars, sourcevars, pagevars, careervars, ds_in, ds_pass1, ds_verified1, ds_guessed>>

NextDiscover == Pass1 \/ Decide \/ Pass2

SpecDiscover == InitDiscover /\ [][NextDiscover]_vars

\* C21: when discover_sources has returned, the slug-guessing pass has run if
\* and only if discovery_mode (stripped, in lower case) is expand or pass 1
\* verified no Greenhouse or Lever candidate.
C21_GuessIffNeeded ==
    ds_pc = "returned" =>
        (ds_guessed <=>
            \/ Lower(Strip(ds_in.discovery_mode)) = <<"e", "x", "p", "a", "n", "d">>
            \/ \A i \in 1..Len(ds_verified1) :
                   ds_verified1[i].type \in {"greenhouse", "lever"} => ~ds_verified1[i].verified)

\* an unknown mode with a verified seed: no guessing
C21_Witness ==
    /\ ds_pc = "returned"
    /\ ~ds_guessed
    /\ ds_in.discovery_mode = <<"f", "u", "l", "l">>
    /\ \E i \in 1..Len(ds_verified1) : ds_verified1[i].verified

(***************************************************************************)
(* run_once around fetch_all_sources: the fetch phase and the writes       *)
(***************************************************************************)
\* configs of two companies with one source each
TwoCompanyConfigs == {l \in SourceLists : Len(l) = 2 /\ l[1].label # l[2].label}

\* runner.py:126-128: run_once is inside fetch_jobs_via_legacy, which is
\* inside fetch_all_sources
InitFetchPhase ==
    /\ CoreInit /\ KeyIdle /\ TriggersIdle /\ LinksIdle /\ DiscoverIdle /\ FilterIdle /\ PagesIdle /\ CareerIdle
    /\ src_config \in TwoCompanyConfigs
    /\ company_tasks = [l \in Labels(src_config) |-> NewTask]
    /\ src_outcome = [i \in 1..Len(src_config) |-> "pending"]
    /\ all_jobs = <<>>
    /\ errors = {}
    /\ fa_pc = "running"

\* runner.py:128: the call has returned; its errors dict is the one
\* fetch_all_sources merged
RunAfterFetch ==
    /\ fa_pc = "returned"
    /\ \E evaluated \in {l \in EvaluatedLists : Len(l) = 1} :
          StartRun(evaluated, fetch_jobs_with_audit(evaluated, errors))

NextFetchPhase ==
    \/ StartCompany \/ FetchSource \/ FinishCompany \/ CollectCompany \/ ReturnAll
    \/ RunAfterFetch \/ Unpack \/ ApplyOverrides
    \/ MLSkipped \/ MLUnavailable \/ MLScoringRaises \/ MLScored
    \/ PersistKept \/ PersistMembership \/ FinishRun

SpecFetchPhase == InitFetchPhase /\ [][NextFetchPhase]_vars

AllTasksCompleted ==
    \A l \in DOMAIN company_tasks : company_tasks[l].state \in {"done", "collected"}

C24_DefaultVisaPhrases ==
    \A n \in 1..Len(explained) :
        (/\ "visa_restriction_phrases" \in fsettings.none_keys
         /\ is_us_location(fjob.location)
         /\ Contains(Lower(fjob.description), NoVisaSponsorship)) =>
            explained[n] = [keep |-> FALSE,
                            reasons |-> <<Reason("exclude:", <<"matched", NoVisaSponsorship>>)>>]


(***************************************************************************)
(* CareerUrlAgent._discover_and_fetch_job_links                            *)
(* job_fetcher_legacy.py:1317-1378, with _http_get of 314-325              *)
(***************************************************************************)
MaxHrefs == 3
MAX_CANDIDATES == 2
MAX_FETCH == 1
TIME_BUDGET_S == 1

\* job_fetcher_legacy.py:1318-1319, 1326: the scheme and host of base_url
BaseUrl == <<"h">>

\* the hrefs of the anchors of a list page
Hrefs ==
    {<<" ">>, <<"/", "a", "b", "o", "u", "t">>, <<"?", "G", "H", "_", "J", "I", "D", "=", "1">>, <<"/", "j", "o", "b", "s", "/", "l", "i", "s", "t", "i", "n", "g", "/", "3">>, <<"/", "j", "o", "b", "s", "/", "l", "i", "s", "t", "i", "n", "g", "/", "4">>}

\* a further list page, with a link the first page does not have
LaterPage == <<<<"/", "j", "o", "b", "s", "/", "l", "i", "s", "t", "i", "n", "g", "/", "9">>>>

\* job_fetcher_legacy.py:647: the pages CareerUrlAgent.fetch has when it
\* falls back to link discovery
LinkPageLists ==
    {<<p>> : p \in SeqsUpTo(Hrefs, MaxHrefs)} \cup {<<p, LaterPage>> : p \in SeqsUpTo(Hrefs, MaxHrefs)}

\* job_fetcher_legacy.py:1345: urljoin for an href that is a path or a query
urljoin(base, href) == base \o href

\* job_fetcher_legacy.py:1328-1339: the nested is_high_signal_job_url, its
\* /jobs/listing/ and gh_jid= shapes
nested_is_high_signal_job_url(u) ==
    \/ Contains(Lower(u), <<"/", "j", "o", "b", "s", "/", "l", "i", "s", "t", "i", "n", "g", "/">>)
    \/ Contains(Lower(u), GhJid)

RECURSIVE uniq_links(_, _)
\* job_fetcher_legacy.py:1349: list(dict.fromkeys(candidates))
uniq_links(links, seen) ==
    IF links = <<>> THEN <<>>
    ELSE IF Head(links) \in seen THEN uniq_links(Tail(links), seen)
    ELSE <<Head(links)>> \o uniq_links(Tail(links), seen \cup {Head(links)})

RECURSIVE collect_candidates(_)
\* job_fetcher_legacy.py:1341-1347
collect_candidates(hrefs) ==
    IF hrefs = <<>> THEN <<>>
    ELSE LET href == Strip(Head(hrefs))
             absu == urljoin(BaseUrl, href)
         IN  IF href = <<>> THEN collect_candidates(Tail(hrefs))
             ELSE IF nested_is_high_signal_job_url(absu) THEN <<absu>> \o collect_candidates(Tail(hrefs))
             ELSE collect_candidates(Tail(hrefs))

\* job_fetcher_legacy.py:1341-1349
Candidates(html) == Take(uniq_links(collect_candidates(html), {}), MAX_CANDIDATES)

InitLinks ==
    /\ CoreInit /\ KeyIdle /\ TriggersIdle /\ DiscoverIdle /\ FilterIdle /\ SourcesIdle /\ PagesIdle /\ CareerIdle
    /\ dl_pages \in LinkPageLists
    /\ dl_candidates = <<>> /\ dl_i = 0 /\ dl_attempt = 0 /\ dl_h = 0
    /\ dl_last = "none" /\ dl_fetched = 0 /\ dl_out = <<>> /\ dl_requested = {}
    /\ dl_requests = 0 /\ dl_elapsed = 0
    /\ dl_pc = "start"

\* job_fetcher_legacy.py:647, 1317-1356: the call with html0 and the candidates
CollectLinks ==
    /\ dl_pc = "start"
    /\ dl_candidates' = Candidates(dl_pages[1])
    /\ dl_i' = 1
    /\ dl_pc' = IF dl_candidates' = <<>> THEN "done" ELSE "loop"
    /\ UNCHANGED <<mainvars, triggervars, discovervars, filtervars, sourcevars, pagevars, careervars, dl_pages,
                   dl_attempt, dl_h, dl_last, dl_fetched, dl_out, dl_requested, dl_requests, dl_elapsed>>

NextCandidate_NoFetchCap ==
    /\ dl_pc = "loop"
    /\ IF \/ dl_i > Len(dl_candidates)
          \/ dl_elapsed > TIME_BUDGET_S
       THEN dl_pc' = "done"
       ELSE dl_pc' = "get"
    /\ dl_attempt' = 0
    /\ dl_h' = 0
    /\ dl_last' = "none"
    /\ UNCHANGED <<mainvars, triggervars, discovervars, filtervars, sourcevars, pagevars, careervars, dl_pages,
                   dl_candidates, dl_i, dl_fetched, dl_out, dl_requested, dl_requests, dl_elapsed>>

\* job_fetcher_legacy.py:1361-1367: the head of the loop over the candidates
NextCandidate ==
    /\ dl_pc = "loop"
    /\ IF \/ dl_i > Len(dl_candidates)
          \/ dl_fetched >= MAX_FETCH
          \/ dl_elapsed > TIME_BUDGET_S
       THEN dl_pc' = "done"
       ELSE dl_pc' = "get"
    /\ dl_attempt' = 0
    /\ dl_h' = 0
    /\ dl_last' = "none"
    /\ UNCHANGED <<mainvars, triggervars, discovervars, filtervars, sourcevars, pagevars, careervars, dl_pages,
                   dl_candidates, dl_i, dl_fetched, dl_out, dl_requested, dl_requests, dl_elapsed>>

\* requests.get and the sleeps of a step take d seconds
Sent(d) ==
    /\ dl_requests' = dl_requests + 1
    /\ dl_requested' = dl_requested \cup {dl_i}
    /\ dl_elapsed' = IF dl_elapsed + d > TIME_BUDGET_S + 1 THEN TIME_BUDGET_S + 1 ELSE dl_elapsed + d

\* job_fetcher_legacy.py:1368, 1377-1378: the except of the detail loop; after
\* the second attempt the loop over the candidates goes on
DetailExcept ==
    IF dl_attempt + 1 < 2
    THEN /\ dl_attempt' = dl_attempt + 1
         /\ dl_h' = 0
         /\ dl_pc' = "get"
         /\ dl_i' = dl_i
    ELSE /\ dl_attempt' = dl_attempt
         /\ dl_h' = dl_h
         /\ dl_pc' = "loop"
         /\ dl_i' = dl_i + 1

\* job_fetcher_legacy.py:318-321: the request answers with a good status
HttpGetReturns ==
    /\ dl_pc = "get"
    /\ \E d \in {0, 1} : Sent(d)
    /\ dl_pc' = "parse"
    /\ UNCHANGED <<mainvars, triggervars, discovervars, filtervars, sourcevars, pagevars, careervars, dl_pages,
                   dl_candidates, dl_i, dl_attempt, dl_h, dl_last, dl_fetched, dl_out>>

\* job_fetcher_legacy.py:317-324: requests.get raises (timeout) or
\* raise_for_status raises (http_error); the loop sleeps and goes on
HttpGetRetries ==
    /\ dl_pc = "get"
    /\ dl_h + 1 < 3
    /\ \E d \in {0, 1} : Sent(d)
    /\ \E e \in {"timeout", "http_error"} : dl_last' = e
    /\ dl_h' = dl_h + 1
    /\ UNCHANGED <<mainvars, triggervars, discovervars, filtervars, sourcevars, pagevars, careervars, dl_pages,
                   dl_candidates, dl_i, dl_attempt, dl_fetched, dl_out, dl_pc>>

\* job_fetcher_legacy.py:322-325, 1377-1378: the third attempt fails, _http_get
\* raises the last error into the detail loop
HttpGetRaises ==
    /\ dl_pc = "get"
    /\ dl_h + 1 = 3
    /\ \E d \in {0, 1} : Sent(d)
    /\ \E e \in {"timeout", "http_error"} : dl_last' = e
    /\ DetailExcept
    /\ UNCHANGED <<mainvars, triggervars, discovervars, filtervars, sourcevars, pagevars, careervars, dl_pages,
                   dl_candidates, dl_fetched, dl_out>>

\* job_fetcher_legacy.py:1370-1376: the detail page parses, with a title
ParseTitled ==
    /\ dl_pc = "parse"
    /\ dl_out' = Append(dl_out, dl_candidates[dl_i])
    /\ dl_fetched' = dl_fetched + 1
    /\ dl_i' = dl_i + 1
    /\ dl_pc' = "loop"
    /\ UNCHANGED <<mainvars, triggervars, discovervars, filtervars, sourcevars, pagevars, careervars, dl_pages,
                   dl_candidates, dl_attempt, dl_h, dl_last, dl_requested, dl_requests, dl_elapsed>>

\* job_fetcher_legacy.py:1370-1376: the parse gives nothing or no title
ParseEmpty ==
    /\ dl_pc = "parse"
    /\ dl_last' = "empty"
    /\ dl_i' = dl_i + 1
    /\ dl_pc' = "loop"
    /\ UNCHANGED <<mainvars, triggervars, discovervars, filtervars, sourcevars, pagevars, careervars, dl_pages,
                   dl_candidates, dl_attempt, dl_h, dl_fetched, dl_out, dl_requested, dl_requests,
                   dl_elapsed>>

\* job_fetcher_legacy.py:1370, 1377-1378: _parse_job_detail_page raises
ParseRaises ==
    /\ dl_pc = "parse"
    /\ dl_last' = "parse_error"
    /\ DetailExcept
    /\ UNCHANGED <<mainvars, triggervars, discovervars, filtervars, sourcevars, pagevars, careervars, dl_pages,
                   dl_candidates, dl_fetched, dl_out, dl_requested, dl_requests, dl_elapsed>>

NextLinks ==
    \/ CollectLinks
    \/ NextCandidate
    \/ HttpGetReturns
    \/ HttpGetRetries
    \/ HttpGetRaises
    \/ ParseTitled
    \/ ParseEmpty
    \/ ParseRaises

SpecLinks == InitLinks /\ [][NextLinks]_vars

\* C25 as stated: a request for a candidate that was tried before follows a
\* transient network error only, never an HTTP error status or a parse
\* failure, and one _http_get call sends at most three requests.
C25_OnlyTransientRetried ==
    [][(dl_requests' = dl_requests + 1 /\ dl_last # "none") =>
           (dl_last = "timeout" /\ dl_h < 3)]_vars

\* C27 as stated: the candidates are links of the first page, at most
\* MAX_CANDIDATES of them, and requests go to at most MAX_FETCH detail pages.
C27_BoundedLinkDiscovery ==
    /\ \A k \in 1..Len(dl_candidates) :
          \E n \in 1..Len(dl_pages[1]) : dl_candidates[k] = urljoin(BaseUrl, Strip(dl_pages[1][n]))
    /\ Len(dl_candidates) <= MAX_CANDIDATES
    /\ Cardinality(dl_requested) <= MAX_FETCH

\* C27, amended: the candidates are links of the first page, at most
\* MAX_CANDIDATES of them; a detail page is requested only while fewer than
\* MAX_FETCH pages have parsed with a title, so at most MAX_FETCH pages are
\* returned and at most MAX_CANDIDATES are requested.
C27_BoundedLinkResults ==
    /\ \A k \in 1..Len(dl_candidates) :
          \E n \in 1..Len(dl_pages[1]) : dl_candidates[k] = urljoin(BaseUrl, Strip(dl_pages[1][n]))
    /\ Len(dl_candidates) <= MAX_CANDIDATES
    /\ dl_pc \in {"get", "parse"} => dl_fetched < MAX_FETCH
    /\ Len(dl_out) <= MAX_FETCH
    /\ Cardinality(dl_requested) <= MAX_CANDIDATES

\* a later page exists, the first page has more links than the cap keeps, and
\* an untitled page made the loop request more pages than MAX_FETCH
C27_Witness ==
    /\ dl_pc = "done"
    /\ Len(dl_pages) = 2
    /\ Len(uniq_links(collect_candidates(dl_pages[1]), {})) > MAX_CANDIDATES
    /\ Len(dl_candidates) = MAX_CANDIDATES
    /\ Cardinality(dl_requested) > MAX_FETCH
    /\ Len(dl_out) = MAX_FETCH

\* C26 as stated: when fetch_all_sources has returned, every source that failed
\* has its own entry in the errors: the entry under its key holds the error of
\* that source, not the error of another source.
C26_OwnEntryPerSource ==
    fa_pc = "returned" =>
        \A i \in 1..Len(src_config) :
            src_outcome[i] = "failed" =>
                \E e \in errors : /\ e.key = ErrorKey(src_config[i])
                                  /\ src_config[e.message.source] = src_config[i]

(***************************************************************************)
(* Runs started by the scheduler and by POST /run                          *)
(* core/scheduler.py:69-96, api/run.py:6-10, db/conn.py:3-6,               *)
(* main.py:27, services/runner.py:337-481, services/dedupe.py:124          *)
(***************************************************************************)
\* scheduler.py:95 (loop_runner, on the event loop) and api/run.py:7 (run_now,
\* a def endpoint, on a worker thread of the server)
Triggers == {"loop", "manual"}

TriggerKeys == {"k1", "k2"}

\* a row a run writes: the run that wrote it (its run_id), the table, the key
RunRow(t, table, key) == [run |-> t, table |-> table, key |-> key]

InitTriggers ==
    /\ CoreInit /\ KeyIdle /\ LinksIdle /\ DiscoverIdle /\ FilterIdle /\ SourcesIdle /\ PagesIdle /\ CareerIdle
    /\ tr_keys \in [Triggers -> SUBSET TriggerKeys \ {{}}]
    /\ tr_pc = [t \in Triggers |-> "idle"]
    /\ tr_pending = {}
    /\ tr_committed = {}

\* self.con.commit(): one connection (main.py:27, conn.py:4), one transaction
ConCommit(pending) ==
    /\ tr_committed' = tr_committed \cup pending
    /\ tr_pending' = {}

\* scheduler.py:76-78 and api/run.py:8-9: RunnerService(app.state.db).run_once()
\* is called, whatever another trigger's run is doing; runner.py:38-336
trigger_run_once ==
    \E t \in Triggers :
        /\ tr_pc[t] = "idle"
        /\ tr_pc' = [tr_pc EXCEPT ![t] = "persist"]
        /\ UNCHANGED <<mainvars, linkvars, discovervars, filtervars, sourcevars, pagevars, careervars,
                       tr_keys, tr_pending, tr_committed>>

\* runner.py:337-342, dedupe.py:50-124: the upsert of final_kept and its commit
TriggerUpsert ==
    \E t \in Triggers :
        /\ tr_pc[t] = "persist"
        /\ ConCommit(tr_pending \cup {RunRow(t, "jobs_latest", k) : k \in tr_keys[t]})
        /\ tr_pc' = [tr_pc EXCEPT ![t] = "membership"]
        /\ UNCHANGED <<mainvars, linkvars, discovervars, filtervars, sourcevars, pagevars, careervars, tr_keys>>

\* runner.py:344-365
TriggerMembership ==
    \E t \in Triggers :
        /\ tr_pc[t] = "membership"
        /\ tr_pending' = tr_pending \cup {RunRow(t, "run_jobs", k) : k \in tr_keys[t]}
        /\ tr_pc' = [tr_pc EXCEPT ![t] = "audit"]
        /\ UNCHANGED <<mainvars, linkvars, discovervars, filtervars, sourcevars, pagevars, careervars,
                       tr_keys, tr_committed>>

\* runner.py:380-416
TriggerAudit ==
    \E t \in Triggers :
        /\ tr_pc[t] = "audit"
        /\ tr_pending' = tr_pending \cup {RunRow(t, "run_job_audit", k) : k \in tr_keys[t]}
        /\ tr_pc' = [tr_pc EXCEPT ![t] = "finish"]
        /\ UNCHANGED <<mainvars, linkvars, discovervars, filtervars, sourcevars, pagevars, careervars,
                       tr_keys, tr_committed>>

\* runner.py:459-481: the runs row and the commit of the run
TriggerFinish ==
    \E t \in Triggers :
        /\ tr_pc[t] = "finish"
        /\ ConCommit(tr_pending \cup {RunRow(t, "runs", "")})
        /\ tr_pc' = [tr_pc EXCEPT ![t] = "done"]
        /\ UNCHANGED <<mainvars, linkvars, discovervars, filtervars, sourcevars, pagevars, careervars, tr_keys>>

NextTriggers ==
    \/ trigger_run_once
    \/ TriggerUpsert
    \/ TriggerMembership
    \/ TriggerAudit
    \/ TriggerFinish

SpecTriggers == InitTriggers /\ [][NextTriggers]_vars

InRun(t) == tr_pc[t] \notin {"idle", "done"}

\* C30 as stated: the run of one trigger is never in progress while the run
\* of the other is, and the committed rows never hold membership or audit
\* rows of a run whose runs row is not committed with them.
C30_RunsExcludeEachOther ==
    /\ \A t, u \in Triggers : (InRun(t) /\ InRun(u)) => t = u
    /\ \A row \in tr_committed :
          row.table \in {"run_jobs", "run_job_audit"} =>
              RunRow(row.run, "runs", "") \in tr_committed

====
